---- MODULE Spec2Model ----
(***************************************************************************)
(* liteproxy: the routing table (package router), and the reverse-proxy    *)
(* handler (package proxy) that consults it.                               *)
(*                                                                         *)
(* Strings are sequences of one-character strings, so that the byte-level  *)
(* operations of the code (strings.HasPrefix, strings.LastIndex, slicing,  *)
(* path[len(prefix)]) are computed as the code computes them.  Indexes     *)
(* returned by Index and LastIndex are Go's 0-based indexes, -1 for "not   *)
(* found".                                                                 *)
(***************************************************************************)
EXTENDS Integers, Sequences, FiniteSets, TLC

VARIABLES
    rt,        \* a router.Router used directly through its methods
    call,      \* the last call of a method of rt or of a function of the
               \* handler: its arguments and its result
    tables,    \* the routers built by router.New, in order; a *router.Router
               \* is an index into this sequence
    hrouter,   \* Handler.router: the pointer to the current router
    scheme,    \* Handler.scheme
    proxies,   \* Handler.proxies: key -> reverse proxy
    reqs,      \* the ServeHTTP calls: where each is, and its locals
    upd,       \* the UpdateRouter call in progress, if any
    returned,  \* the number of UpdateRouter calls that have returned
    sni,       \* a call of extractSNI: its input and its result
    rc,        \* a replayConn: its fields, and the socket it wraps
    rd,        \* the task that calls replayConn.Read
    cl,        \* the task that calls replayConn.Close
    pool,      \* peekBufPool and copyBufPool: the Get and Put calls so far
    cn,        \* handleTLSConn / handleHTTPConn for one accepted connection
    sp,        \* proxyTCP: the two sockets and the two copying goroutines
    mn,        \* main: the configuration, the listeners, the certificate
               \* hosts, the reload in progress, the last connection accepted
    wt,        \* watcher.Watch: the clock, the events, the debounce timer,
               \* the goroutine, the stop function and the calls of onChange
    sv         \* Listener.Serve: the connections waiting to be accepted, the
               \* accept loop and the workers it has started

routerVars == <<rt, call>>

handlerVars == <<tables, hrouter, scheme, proxies, reqs, upd, returned>>

\* the state of the passthrough package
replayVars == <<rc, rd, cl, pool>>

connVars == <<cn, sp>>

auxVars == <<sni, rc, rd, cl, pool, cn, sp, mn, wt, sv>>

\* a socket of proxyTCP as its peer drives it: the bytes the peer has sent,
\* whether it has stopped sending (FIN) or reset the connection, how many
\* of its bytes the proxy has read, the bytes it has received, and whether
\* the proxy has shut the write side or closed the socket
NoPeer == [sent |-> 0, fin |-> FALSE, err |-> FALSE, read |-> 0,
           recv |-> <<>>, wr |-> "open", closed |-> FALSE]

\* a copying goroutine of proxyTCP that has not been started
NoDir == [pc |-> "none", held |-> <<>>, failed |-> FALSE]

\* main before it has read its configuration
NoMain == [pc |-> "none"]

\* no Watch called
NoWatch == [pc |-> "none"]

\* no Serve called
NoServe == [pc |-> "none"]

\* the passthrough package at rest: nothing called, no connection accepted
PackageIdle ==
    /\ sni = [op |-> "none"]
    /\ rc = [buf |-> <<>>, pool |-> FALSE, poolBuf |-> FALSE,
             sock |-> <<>>, pos |-> 0, closed |-> FALSE]
    /\ rd = [pc |-> "idle", got |-> <<>>]
    /\ cl = [pc |-> "idle", calls |-> 0]
    /\ pool = [peekGets |-> 0, peekPuts |-> 0, copyGets |-> 0, copyPuts |-> 0]
    /\ cn = [pc |-> "none", n |-> 0, path |-> "none", dials |-> 0]
    /\ sp = [peer |-> [client |-> NoPeer, backend |-> NoPeer],
             dir  |-> [c2b |-> NoDir, b2c |-> NoDir]]

\* the passthrough package at rest and main not started
AuxIdle == PackageIdle /\ mn = NoMain /\ wt = NoWatch /\ sv = NoServe

vars == <<rt, call, tables, hrouter, scheme, proxies, reqs, upd, returned,
          sni, rc, rd, cl, pool, cn, sp, mn, wt, sv>>

-----------------------------------------------------------------------------
(* Package strings.                                                        *)

Range(s) == {s[i] : i \in DOMAIN s}

HasPrefix(s, prefix) ==
    /\ Len(s) >= Len(prefix)
    /\ SubSeq(s, 1, Len(prefix)) = prefix

HasSuffix(s, suffix) ==
    /\ Len(s) >= Len(suffix)
    /\ SubSeq(s, Len(s) - Len(suffix) + 1, Len(s)) = suffix

\* strings.Index(s, c) for a one-byte c: 0-based index of the first c, or -1
Index(s, c) ==
    IF \E i \in DOMAIN s : s[i] = c
      THEN (CHOOSE i \in DOMAIN s : s[i] = c /\ \A j \in 1..(i-1) : s[j] # c) - 1
      ELSE -1

\* strings.LastIndex(s, c) for a one-byte c: 0-based index of the last c, or -1
LastIndex(s, c) ==
    IF \E i \in DOMAIN s : s[i] = c
      THEN (CHOOSE i \in DOMAIN s : s[i] = c /\ \A j \in (i+1)..Len(s) : s[j] # c) - 1
      ELSE -1

\* s[:idx]
SliceTo(s, idx) == SubSeq(s, 1, idx)

\* s[idx:]
SliceFrom(s, idx) == SubSeq(s, idx + 1, Len(s))

TrimPrefix(s, prefix) ==
    IF HasPrefix(s, prefix) THEN SliceFrom(s, Len(prefix)) ELSE s

-----------------------------------------------------------------------------
(* compose.Route and the nil *compose.Route.                               *)

Nil == [nil |-> TRUE]

Route(host, prefix, svc, port, passHost, strip, redirectFrom) ==
    [Host |-> host, PathPrefix |-> prefix, ServiceName |-> svc,
     ServicePort |-> port, HTTPPort |-> 0, PassHostHeader |-> passHost,
     StripPrefix |-> strip, Passthrough |-> FALSE,
     RedirectFrom |-> redirectFrom]

-----------------------------------------------------------------------------
(* Package router.                                                         *)

IsWildcardHost(host) == HasPrefix(host, <<"*", ".">>)

\* the less function given to sort.Slice: longer PathPrefix first
LessByPathLen(a, b) == Len(a.PathPrefix) > Len(b.PathPrefix)

\* One pass of the inner loop of the insertion sort: x, appended after the
\* sorted s, is swapped leftwards while it is less than its left neighbour.
RECURSIVE InsertSorted(_, _)
InsertSorted(s, x) ==
    IF s # <<>> /\ LessByPathLen(x, s[Len(s)])
      THEN Append(InsertSorted(SubSeq(s, 1, Len(s) - 1), x), s[Len(s)])
      ELSE Append(s, x)

\* a sort.Slice that leaves the slice in input order
SortSliceNoOp(s) == s

\* insertionSortLessFunc: each element in turn is swapped leftwards
RECURSIVE insertionSort(_)
insertionSort(s) ==
    IF s = <<>> THEN <<>>
    ELSE InsertSorted(insertionSort(SubSeq(s, 1, Len(s) - 1)), s[Len(s)])

\* data.Swap(i, j)
SwapAt(s, i, j) == [s EXCEPT ![i] = s[j], ![j] = s[i]]

\* order2 and median of choosePivot, on the indices: the median of the
\* elements at a, b and c and the number of swaps made to find it
order2(s, x) ==
    IF LessByPathLen(s[x.b], s[x.a])
      THEN [x EXCEPT !.a = x.b, !.b = x.a, !.swaps = @ + 1]
      ELSE x
median(s, a, b, c) ==
    LET x  == order2(s, [a |-> a, b |-> b, swaps |-> 0])
        y  == order2(s, [a |-> x.b, b |-> c, swaps |-> x.swaps])
        z  == order2(s, [a |-> x.a, b |-> y.a, swaps |-> y.swaps])
    IN  [pivot |-> z.b, swaps |-> z.swaps]

\* choosePivot for a slice of 8 to 49 elements: the median of the elements
\* at one, two and three quarters, and the hint that the slice may be sorted
\* already when finding it took no swap
choosePivot(s) ==
    LET q == Len(s) \div 4
        m == median(s, 1 + q, 1 + 2 * q, 1 + 3 * q)
    IN  [pivot |-> m.pivot, increasing |-> m.swaps = 0]

\* partialInsertionSort for a slice of fewer than 50 elements: true, with
\* nothing moved, when no element is less than the one before it
partialInsertionSort(s) ==
    \A i \in 2..Len(s) : ~LessByPathLen(s[i], s[i - 1])

\* the two scans of partition, from the left and from the right, against the
\* pivot at the head of the slice
RECURSIVE ScanUp(_, _, _)
ScanUp(s, i, j) ==
    IF i <= j /\ LessByPathLen(s[i], s[1]) THEN ScanUp(s, i + 1, j) ELSE i
RECURSIVE ScanDown(_, _, _)
ScanDown(s, i, j) ==
    IF i <= j /\ ~LessByPathLen(s[j], s[1]) THEN ScanDown(s, i, j - 1) ELSE j

\* the loop of partition: scan, swap the two elements found, until the
\* scans cross; the pivot is then swapped to where they crossed
RECURSIVE PartitionLoop(_, _, _)
PartitionLoop(s, i, j) ==
    LET i2 == ScanUp(s, i, j)
        j2 == ScanDown(s, i2, j)
    IN  IF i2 > j2 THEN [s |-> SwapAt(s, j2, 1), mid |-> j2]
        ELSE PartitionLoop(SwapAt(s, i2, j2), i2 + 1, j2 - 1)

\* partition: the pivot is swapped to the head of the slice first
partition(s, pivot) == PartitionLoop(SwapAt(s, 1, pivot), 2, Len(s))

\* pdqsort for a slice of 13 elements, the longest within the bounds here:
\* a slice that looks sorted and is sorted is left alone; any other is
\* partitioned once, and its two parts, of 12 elements at most together, are
\* sorted by insertion
pdqsort(s) ==
    LET cp == choosePivot(s)
    IN  IF cp.increasing /\ partialInsertionSort(s) THEN s
        ELSE LET p == partition(s, cp.pivot)
             IN  insertionSort(SubSeq(p.s, 1, p.mid - 1))
                    \o <<p.s[p.mid]>>
                    \o insertionSort(SubSeq(p.s, p.mid + 1, Len(s)))

\* sort.Slice(s, less) of Go 1.24: insertion sort for a slice of at most 12
\* elements, pattern-defeating quicksort for a longer one
SortSlice(s) ==
    IF Len(s) <= 12 THEN insertionSort(s) ELSE pdqsort(s)

\* for _, domain := range route.RedirectFrom { redirects[domain] = route }
PutRedirects(m, route) ==
    [d \in (DOMAIN m) \cup Range(route.RedirectFrom) |->
        IF d \in Range(route.RedirectFrom) THEN route ELSE m[d]]

\* the two loops that fill the redirect map, over the routes in slice order
RECURSIVE BuildRedirects(_, _)
BuildRedirects(m, list) ==
    IF list = <<>> THEN m
    ELSE BuildRedirects(PutRedirects(m, Head(list)), Tail(list))

EmptyMap == [d \in {} |-> Nil]

\* an Update whose redirect map is built from the literal-host routes only
RouterUpdateExactRedirects(routes) ==
    LET exact     == SortSlice(SelectSeq(routes, LAMBDA r : ~IsWildcardHost(r.Host)))
        wildcards == SortSlice(SelectSeq(routes, LAMBDA r : IsWildcardHost(r.Host)))
    IN  [routes    |-> exact,
         wildcards |-> wildcards,
         redirects |-> BuildRedirects(EmptyMap, exact)]

\* Router.Update: the router's fields after Update(routes)
RouterUpdate(routes) ==
    LET exact     == SortSlice(SelectSeq(routes, LAMBDA r : ~IsWildcardHost(r.Host)))
        wildcards == SortSlice(SelectSeq(routes, LAMBDA r : IsWildcardHost(r.Host)))
    IN  [routes    |-> exact,
         wildcards |-> wildcards,
         redirects |-> BuildRedirects(BuildRedirects(EmptyMap, exact), wildcards)]

\* router.New
RouterNew(routes) == RouterUpdate(routes)

\* "Strip port from host if present"
StripPort(host) ==
    LET idx == LastIndex(host, ":")
    IN  IF idx # -1 THEN SliceTo(host, idx) ELSE host

\* a prefix test without the path-boundary check
matchesPathPrefixNoBoundary(path, prefix) == HasPrefix(path, prefix)

matchesPathPrefix(path, prefix) ==
    IF ~HasPrefix(path, prefix) THEN FALSE
    ELSE IF prefix = <<"/">> \/ HasSuffix(prefix, <<"/">>) THEN TRUE
    ELSE IF Len(path) = Len(prefix) THEN TRUE
    ELSE path[Len(prefix) + 1] = "/"

\* the scan of one route slice: the first route with this host whose prefix
\* matches, or Nil
ScanRoutes(list, host, path) ==
    LET hits == {i \in DOMAIN list :
                    /\ list[i].Host = host
                    /\ matchesPathPrefix(path, list[i].PathPrefix)}
    IN  IF hits = {} THEN Nil
        ELSE list[CHOOSE i \in hits : \A j \in hits : i <= j]

\* "acme.tenant.com" -> "*.tenant.com"
WildcardHost(host) == <<"*">> \o SliceFrom(host, Index(host, "."))

\* a Match that scans the wildcard routes before the literal-host routes
MatchWildcardFirst(r, host0, path0) ==
    LET host  == StripPort(host0)
        path  == IF path0 = <<>> THEN <<"/">> ELSE path0
        wild  == IF Index(host, ".") # -1
                   THEN ScanRoutes(r.wildcards, WildcardHost(host), path)
                   ELSE Nil
    IN  IF wild # Nil THEN wild ELSE ScanRoutes(r.routes, host, path)

\* Router.Match
Match(r, host0, path0) ==
    LET host  == StripPort(host0)
        path  == IF path0 = <<>> THEN <<"/">> ELSE path0
        exact == ScanRoutes(r.routes, host, path)
    IN  IF exact # Nil THEN exact
        ELSE IF Index(host, ".") # -1
               THEN ScanRoutes(r.wildcards, WildcardHost(host), path)
               ELSE Nil

\* Router.Redirect
Redirect(r, host0) ==
    LET host == StripPort(host0)
    IN  IF host \in DOMAIN r.redirects THEN r.redirects[host] ELSE Nil

\* a getPassthroughRoute that does not look at the Passthrough flag
getPassthroughRouteAnyRoute(r, host0) ==
    LET host == StripPort(host0)
        lit  == {i \in DOMAIN r.routes : r.routes[i].Host = host}
        wild == IF Index(host, ".") # -1
                  THEN {i \in DOMAIN r.wildcards :
                           r.wildcards[i].Host = WildcardHost(host)}
                  ELSE {}
    IN  IF lit # {} THEN r.routes[CHOOSE i \in lit : \A j \in lit : i <= j]
        ELSE IF wild # {}
          THEN r.wildcards[CHOOSE i \in wild : \A j \in wild : i <= j]
        ELSE Nil

\* Router.getPassthroughRoute: the first literal-host route with this host
\* and Passthrough set, else the first such wildcard route, else nil
getPassthroughRoute(r, host0) ==
    LET host == StripPort(host0)
        lit  == {i \in DOMAIN r.routes :
                    r.routes[i].Host = host /\ r.routes[i].Passthrough}
        wild == IF Index(host, ".") # -1
                  THEN {i \in DOMAIN r.wildcards :
                           /\ r.wildcards[i].Host = WildcardHost(host)
                           /\ r.wildcards[i].Passthrough}
                  ELSE {}
    IN  IF lit # {} THEN r.routes[CHOOSE i \in lit : \A j \in lit : i <= j]
        ELSE IF wild # {}
          THEN r.wildcards[CHOOSE i \in wild : \A j \in wild : i <= j]
        ELSE Nil

\* Router.GetPassthrough
GetPassthrough(r, host) == getPassthroughRoute(r, host)

\* Router.GetPassthroughPort: the pair (route, port)
GetPassthroughPort(r, host, forHTTP) ==
    LET route == getPassthroughRoute(r, host)
    IN  IF route = Nil THEN [route |-> Nil, port |-> 0]
        ELSE IF forHTTP /\ route.HTTPPort > 0
          THEN [route |-> route, port |-> route.HTTPPort]
        ELSE [route |-> route, port |-> route.ServicePort]

\* Router.HasPassthroughRoutes
HasPassthroughRoutes(r) ==
    \/ \E i \in DOMAIN r.routes : r.routes[i].Passthrough
    \/ \E i \in DOMAIN r.wildcards : r.wildcards[i].Passthrough

\* the characters of the host names here, in the order of their bytes
ByteOrder ==
    <<"*", "-", ".", "/", "0", "1", "2", "3", "4", "5", "6", "7", "8", "9",
      ":", "[", "]", "a", "b", "n", "t", "u", "w", "x">>

ByteRank(c) == CHOOSE i \in DOMAIN ByteOrder : ByteOrder[i] = c

\* a < b for two Go strings: the first byte that differs decides, and a
\* string is greater than each of its proper beginnings
RECURSIVE StringLess(_, _)
StringLess(a, b) ==
    IF b = <<>> THEN FALSE
    ELSE IF a = <<>> THEN TRUE
    ELSE IF Head(a) = Head(b) THEN StringLess(Tail(a), Tail(b))
    ELSE ByteRank(Head(a)) < ByteRank(Head(b))

\* sort.Strings of a slice that holds each string of the set once: the
\* least string, then the others sorted
RECURSIVE SortStrings(_)
SortStrings(set) ==
    IF set = {} THEN <<>>
    ELSE LET least == CHOOSE x \in set : \A y \in set \ {x} : StringLess(x, y)
         IN  <<least>> \o SortStrings(set \ {least})

\* a Hosts that leaves out the wildcard routes
HostsLiteralOnly(r) ==
    SortStrings({r.routes[i].Host : i \in DOMAIN r.routes}
                  \cup UNION {Range(r.routes[i].RedirectFrom) : i \in DOMAIN r.routes})

\* Router.Hosts: hostSet collects the Host and the RedirectFrom of the
\* routes, then of the wildcards; its keys are appended and sorted
Hosts(r) ==
    LET all == r.routes \o r.wildcards
        hostSet == {all[i].Host : i \in DOMAIN all}
                     \cup UNION {Range(all[i].RedirectFrom) : i \in DOMAIN all}
    IN  SortStrings(hostSet)

-----------------------------------------------------------------------------
(* Inputs of the router specification.                                     *)

MaxRoutes == 3

hAT   == <<"a", ".", "t">>
hBT   == <<"b", ".", "t">>
hWT   == <<"w", ".", "t">>
hABT  == <<"a", ".", "b", ".", "t">>
hT    == <<"t">>
hDotT == <<".", "t">>
hStarT == <<"*", ".", "t">>
hATport == <<"a", ".", "t", ":", "8">>
hBTport == <<"b", ".", "t", ":", "8">>
hATx    == <<"a", ".", "t", ":", "x">>

pEmpty == <<>>
pRoot  == <<"/">>
pA     == <<"/", "a">>
pASl   == <<"/", "a", "/">>
pAX    == <<"/", "a", "x">>
pASlX  == <<"/", "a", "/", "x">>
pAB    == <<"/", "a", "/", "b">>
pABX   == <<"/", "a", "/", "b", "/", "x">>

RoutePool ==
    { Route(hAT,    pRoot, "web",   80, FALSE, FALSE, <<hWT>>),
      Route(hAT,    pA,    "api",   81, FALSE, TRUE,  <<>>),
      Route(hAT,    pAB,   "api2",  82, FALSE, FALSE, <<>>),
      Route(hStarT, pRoot, "wild",  83, FALSE, FALSE, <<>>),
      Route(hStarT, pA,    "wilda", 84, FALSE, FALSE, <<hWT, hBT>>) }

\* the route sequences handed to New and Update: no route twice, any order
RECURSIVE SeqsUpTo(_, _)
SeqsUpTo(S, n) ==
    IF n = 0 THEN {<<>>}
    ELSE LET shorter == SeqsUpTo(S, n - 1)
         IN  shorter \cup {Append(s, x) : s \in shorter, x \in S}

RouteInputs ==
    {s \in SeqsUpTo(RoutePool, MaxRoutes) :
        \A i, j \in DOMAIN s : i # j => s[i] # s[j]}

\* the route sequences of LongLen routes handed to Update: one route for "/"
\* at any place among routes for "/a" of the same host that differ by their
\* port
LongLen == 13

LongRoutes(k) ==
    [i \in 1..LongLen |->
        IF i = k THEN Route(hAT, pRoot, "web", 80, FALSE, FALSE, <<>>)
        ELSE Route(hAT, pA, "api", 100 + i, FALSE, FALSE, <<>>)]

LongRouteInputs == {LongRoutes(k) : k \in 1..LongLen}

ReqHosts == {hAT, hBT, hWT, hABT, hT, hDotT, hStarT, hATport, hBTport, hATx}

ReqPaths == {pEmpty, pRoot, pA, pASl, pAX, pASlX, pAB, pABX}

Prefixes == {pRoot, pA, pASl, pAB}

-----------------------------------------------------------------------------
(* The router used directly.                                               *)

NoCall == [op |-> "none"]

RouterInit ==
    /\ \E routes \in RouteInputs : rt = RouterNew(routes)
    /\ call = NoCall
    /\ tables = <<>>
    /\ hrouter = 0
    /\ scheme = "http"
    /\ proxies = <<>>
    /\ reqs = <<>>
    /\ upd = [pc |-> "idle"]
    /\ returned = 0
    /\ AuxIdle

CallUpdate ==
    \E routes \in RouteInputs \cup LongRouteInputs :
        /\ rt' = RouterUpdate(routes)
        /\ call' = [op |-> "Update", routes |-> routes]
        /\ UNCHANGED <<handlerVars, auxVars>>

CallMatch ==
    \E host \in ReqHosts, path \in ReqPaths :
        /\ call' = [op |-> "Match", host |-> host, path |-> path,
                    res |-> Match(rt, host, path)]
        /\ UNCHANGED <<rt, handlerVars, auxVars>>

CallRedirect ==
    \E host \in ReqHosts :
        /\ call' = [op |-> "Redirect", host |-> host, res |-> Redirect(rt, host)]
        /\ UNCHANGED <<rt, handlerVars, auxVars>>

CallMatchesPathPrefix ==
    \E path \in ReqPaths, prefix \in Prefixes :
        /\ call' = [op |-> "matchesPathPrefix", path |-> path, prefix |-> prefix,
                    res |-> matchesPathPrefix(path, prefix)]
        /\ UNCHANGED <<rt, handlerVars, auxVars>>

CallHosts ==
    /\ call' = [op |-> "Hosts", res |-> Hosts(rt)]
    /\ UNCHANGED <<rt, handlerVars, auxVars>>

RouterNext ==
    \/ CallUpdate
    \/ CallMatch
    \/ CallRedirect
    \/ CallMatchesPathPrefix
    \/ CallHosts

SpecRouter == RouterInit /\ [][RouterNext]_vars

-----------------------------------------------------------------------------
(* The passthrough lookups of the router, over tables that hold            *)
(* passthrough routes.                                                     *)

\* a route with liteproxy.passthrough set, and its HTTP port (0: not set)
PassthroughRoute(host, prefix, svc, port, httpPort) ==
    [Route(host, prefix, svc, port, FALSE, TRUE, <<>>)
        EXCEPT !.Passthrough = TRUE, !.HTTPPort = httpPort]

PassPool ==
    { Route(hAT, pRoot, "web", 80, FALSE, TRUE, <<>>),
      PassthroughRoute(hAT,    pA,    "tcp",  443, 8080),
      PassthroughRoute(hBT,    pRoot, "btcp", 445, 0),
      PassthroughRoute(hStarT, pRoot, "wtcp", 444, 81),
      Route(hStarT, pA, "wild", 83, FALSE, TRUE, <<>>) }

PassInputs ==
    {s \in SeqsUpTo(PassPool, MaxRoutes) :
        \A i, j \in DOMAIN s : i # j => s[i] # s[j]}

PassHosts == {hAT, hBT, hWT, hABT, hT, hATport}

\* the handler is not part of this specification
HandlerIdle ==
    /\ tables = <<>>
    /\ hrouter = 0
    /\ scheme = "http"
    /\ proxies = <<>>
    /\ reqs = <<>>
    /\ upd = [pc |-> "idle"]
    /\ returned = 0

PassInit ==
    /\ \E routes \in PassInputs : rt = RouterNew(routes)
    /\ call = NoCall
    /\ HandlerIdle
    /\ AuxIdle

CallGetPassthrough ==
    \E host \in PassHosts :
        /\ call' = [op |-> "GetPassthrough", host |-> host,
                    res |-> GetPassthrough(rt, host)]
        /\ UNCHANGED <<rt, handlerVars, auxVars>>

CallGetPassthroughPort ==
    \E host \in PassHosts, forHTTP \in BOOLEAN :
        /\ call' = [op |-> "GetPassthroughPort", host |-> host,
                    forHTTP |-> forHTTP,
                    res |-> GetPassthroughPort(rt, host, forHTTP)]
        /\ UNCHANGED <<rt, handlerVars, auxVars>>

CallHasPassthroughRoutes ==
    /\ call' = [op |-> "HasPassthroughRoutes", res |-> HasPassthroughRoutes(rt)]
    /\ UNCHANGED <<rt, handlerVars, auxVars>>

PassNext ==
    \/ CallGetPassthrough
    \/ CallGetPassthroughPort
    \/ CallHasPassthroughRoutes

SpecPassthrough == PassInit /\ [][PassNext]_vars

-----------------------------------------------------------------------------
(* Package net/url and net/http/httputil, as far as the handler uses them. *)
(* A path is a sequence of bytes in which an escape triple such as %2F is  *)
(* one element.                                                            *)

\* url.PathUnescape
Unescape(raw) ==
    [i \in DOMAIN raw |->
        IF raw[i] = "%2F" THEN "/" ELSE IF raw[i] = "%20" THEN " " ELSE raw[i]]

\* the default encoding of a decoded path: a space is escaped, a slash is not
Escape(path) ==
    [i \in DOMAIN path |-> IF path[i] = " " THEN "%20" ELSE path[i]]

\* URL.setPath: r.URL of a request whose request-target has this path
ParseURL(raw) ==
    [Path    |-> Unescape(raw),
     RawPath |-> IF Escape(Unescape(raw)) = raw THEN <<>> ELSE raw]

\* URL.EscapedPath
EscapedPath(u) ==
    IF u.RawPath # <<>> /\ Unescape(u.RawPath) = u.Path
      THEN u.RawPath
      ELSE Escape(u.Path)

\* httputil.joinURLPath(a, b)
JoinURLPath(a, b) ==
    LET apath  == EscapedPath(a)
        bpath  == EscapedPath(b)
        aslash == HasSuffix(apath, <<"/">>)
        bslash == HasPrefix(bpath, <<"/">>)
    IN  IF a.RawPath = <<>> /\ b.RawPath = <<>>
          THEN [Path    |-> IF HasSuffix(a.Path, <<"/">>) /\ HasPrefix(b.Path, <<"/">>)
                              THEN a.Path \o SliceFrom(b.Path, 1)
                            ELSE IF ~HasSuffix(a.Path, <<"/">>) /\ ~HasPrefix(b.Path, <<"/">>)
                              THEN a.Path \o <<"/">> \o b.Path
                            ELSE a.Path \o b.Path,
                RawPath |-> <<>>]
        ELSE IF aslash /\ bslash
          THEN [Path |-> a.Path \o SliceFrom(b.Path, 1), RawPath |-> apath \o SliceFrom(bpath, 1)]
        ELSE IF ~aslash /\ ~bslash
          THEN [Path |-> a.Path \o <<"/">> \o b.Path, RawPath |-> apath \o <<"/">> \o bpath]
        ELSE [Path |-> a.Path \o b.Path, RawPath |-> apath \o bpath]

-----------------------------------------------------------------------------
(* Package proxy: the Handler.                                             *)

\* fmt.Sprintf("%s:%d", route.ServiceName, route.ServicePort)
ServiceAddr(route) == <<route.ServiceName, ":", ToString(route.ServicePort)>>

\* key := fmt.Sprintf("%s:%d", route.ServiceName, route.ServicePort)
ProxyKey(route) == ServiceAddr(route)

\* target := &url.URL{Scheme: "http", Host: ...}
TargetURL(route) ==
    [Scheme |-> "http", Host |-> ServiceAddr(route), Path |-> <<>>, RawPath |-> <<>>]

\* Handler.buildProxy: the reverse proxy, that is the values its Rewrite
\* closure captures
buildProxy(target, passHostHeader) ==
    [target |-> target, passHostHeader |-> passHostHeader]

\* a Rewrite closure that sets the outbound host and leaves the path as
\* ServeHTTP left it
ProxyServeKeepPath(proxy, inHost, url) ==
    LET outHost == IF proxy.passHostHeader THEN inHost ELSE <<>>
    IN  [URLHost    |-> proxy.target.Host,
         Path       |-> url.Path,
         RawPath    |-> url.RawPath,
         HostHeader |-> IF outHost # <<>> THEN outHost ELSE proxy.target.Host,
         RequestURI |-> EscapedPath(url)]

\* the Rewrite closure and the sending of the outbound request: SetURL sets
\* the URL and clears Out.Host; an empty Out.Host is sent as the URL's host
ProxyServe(proxy, inHost, url) ==
    LET joined  == JoinURLPath(proxy.target, url)
        outHost == IF proxy.passHostHeader THEN inHost ELSE <<>>
    IN  [URLHost    |-> proxy.target.Host,
         Path       |-> joined.Path,
         RawPath    |-> joined.RawPath,
         HostHeader |-> IF outHost # <<>> THEN outHost ELSE proxy.target.Host,
         RequestURI |-> EscapedPath(joined)]

\* redirectURL := fmt.Sprintf("%s://%s%s", ...), then "?" + RawQuery
RedirectURL(sch, target, path, rawQuery) ==
    LET u == <<sch, "://">> \o target.Host \o path
    IN  IF rawQuery # <<>> THEN u \o <<"?">> \o rawQuery ELSE u

\* a ServeHTTP that looks for a route before it looks for a redirect
ServeDecisionMatchFirst(r, host, path) ==
    LET route == Match(r, host, path)
        target == Redirect(r, host)
    IN  IF route # Nil THEN [kind |-> "route", route |-> route]
        ELSE IF target # Nil THEN [kind |-> "redirect", route |-> target]
        ELSE [kind |-> "notfound", route |-> Nil]

\* ServeHTTP, from the redirect check to the 404: what is done with the request
ServeDecision(r, host, path) ==
    LET target == Redirect(r, host)
        route  == Match(r, host, path)
    IN  IF target # Nil THEN [kind |-> "redirect", route |-> target]
        ELSE IF route = Nil THEN [kind |-> "notfound", route |-> Nil]
        ELSE [kind |-> "route", route |-> route]

\* a prefix stripping that leaves an empty path empty
StripPathNoDefault(route, url) ==
    IF route.StripPrefix /\ route.PathPrefix # <<"/">>
      THEN [url EXCEPT !.Path = TrimPrefix(url.Path, route.PathPrefix)]
      ELSE url

\* "Strip the path prefix before proxying (if enabled)": r.URL afterwards
StripPath(route, url) ==
    IF route.StripPrefix /\ route.PathPrefix # <<"/">>
      THEN LET p == TrimPrefix(url.Path, route.PathPrefix)
           IN  [url EXCEPT !.Path = IF p = <<>> THEN <<"/">> ELSE p]
      ELSE url

\* an UpdateRouter that clears the cache but leaves the old router in place
StoreRouterDropped(old, new) == old

\* h.router.Store(r): the pointer afterwards
StoreRouter(old, new) == new

-----------------------------------------------------------------------------
(* Inputs of the handler specification.                                    *)

NumReq == 2
MaxReloads == 1

hNU     == <<"n", ".", "u">>

uASlX   == <<"/", "a", "/", "x">>
uAEnc   == <<"/", "a", "/", "x", "%2F">>
uASp    == <<"/", "a", "/", "%20">>
qNone   == <<>>
qQ      == <<"q">>

\* the table at start: a.t and b.t share the upstream web:80 and differ in
\* PassHostHeader; w.t is a redirect source that *.t would also match
TableOld ==
    << Route(hAT,    pRoot, "web",  80, TRUE,  TRUE,  <<hWT>>),
       Route(hAT,    pA,    "api",  81, FALSE, TRUE,  <<>>),
       Route(hBT,    pASl,  "web",  80, FALSE, TRUE,  <<>>),
       Route(hStarT, pRoot, "wild", 83, FALSE, FALSE, <<>>) >>

\* a table that no longer routes a.t, b.t or w.t and routes n.u to web:80
TableNew ==
    << Route(hNU, pASl, "web", 80, FALSE, TRUE, <<>>) >>

HandlerTables == {TableOld, TableNew}

Request(host, raw, query) == [host |-> host, raw |-> raw, query |-> query]

ReqInputs ==
    { Request(hAT,     pEmpty, qNone),
      Request(hATport, pA,     qQ),
      Request(hWT,     uASlX,  qQ),
      Request(hBT,     uAEnc,  qNone),
      Request(hNU,     uASp,   qNone) }

Schemes == {"http", "https"}

-----------------------------------------------------------------------------
(* The handler under concurrent requests and reloads.                      *)

IdleReq == [pc |-> "idle"]
NoProxy == [none |-> TRUE]
NoResp  == [code |-> 0]
NoOut   == [none |-> TRUE]

ReqIds == 1..NumReq

\* proxy.New(r, scheme), r built by router.New from the routes parsed at
\* startup; every later table comes from a reload
HandlerInit ==
    /\ tables = <<RouterNew(TableOld)>>
    /\ hrouter = 1
    /\ scheme \in Schemes
    /\ proxies = EmptyMap
    /\ reqs = [i \in ReqIds |-> IdleReq]
    /\ upd = [pc |-> "idle"]
    /\ returned = 0
    /\ rt = RouterNew(<<>>)
    /\ call = NoCall
    /\ AuxIdle

\* a request as ServeHTTP leaves it when it has its proxy: the prefix
\* stripping and proxy.ServeHTTP(w, r).  Neither reads the handler's fields.
Forward(q, proxy) ==
    LET url == StripPath(q.route, q.url)
    IN  [q EXCEPT !.pc = "done", !.endRouter = hrouter, !.proxy = proxy,
                  !.url = url, !.out = ProxyServe(proxy, q.host, url),
                  !.resp = [code |-> 200]]

\* ServeHTTP from its entry to the call of getProxy: rtr := h.router.Load(),
\* then the redirect check and the match, which read only the router loaded.
\* Requests are numbered in the order in which they start.
ReqStart(i) ==
    /\ reqs[i].pc = "idle"
    /\ i > 1 => reqs[i - 1].pc # "idle"
    /\ \E in \in ReqInputs :
          LET url == ParseURL(in.raw)
              d   == ServeDecision(tables[hrouter], in.host, url.Path)
              q   == [pc |-> "getProxy", host |-> in.host, in |-> url,
                      url |-> url, path |-> url.Path, query |-> in.query,
                      rtr |-> hrouter, startRet |-> returned,
                      matched |-> TRUE, route |-> d.route, proxy |-> NoProxy,
                      missed |-> FALSE,
                      resp |-> NoResp, out |-> NoOut, endRouter |-> 0]
          IN  reqs' = [reqs EXCEPT ![i] =
                         IF d.kind = "redirect"
                           THEN [q EXCEPT !.pc = "done", !.endRouter = hrouter,
                                          !.matched = FALSE, !.route = Nil,
                                          !.resp = [code |-> 301,
                                                    location |-> RedirectURL(scheme, d.route, url.Path, in.query)]]
                         ELSE IF d.kind = "notfound"
                           THEN [q EXCEPT !.pc = "done", !.endRouter = hrouter,
                                          !.resp = [code |-> 404]]
                         ELSE q]
    /\ UNCHANGED <<tables, hrouter, scheme, proxies, upd, returned, routerVars, auxVars>>

\* getProxy under the read lock; on a hit the request is forwarded
ReqGetProxyRead(i) ==
    /\ reqs[i].pc = "getProxy"
    /\ LET q   == reqs[i]
           key == ProxyKey(q.route)
       IN  reqs' = [reqs EXCEPT ![i] =
                      IF key \in DOMAIN proxies
                        THEN Forward(q, proxies[key])
                        ELSE [q EXCEPT !.pc = "lock", !.missed = TRUE]]
    /\ UNCHANGED <<tables, hrouter, scheme, proxies, upd, returned, routerVars, auxVars>>

\* a getProxy that builds and stores without a second look
ReqGetProxyWriteNoCheck(i) ==
    /\ reqs[i].pc = "lock"
    /\ LET q   == reqs[i]
           key == ProxyKey(q.route)
           new == buildProxy(TargetURL(q.route), q.route.PassHostHeader)
       IN  /\ reqs' = [reqs EXCEPT ![i] = Forward(q, new)]
           /\ proxies' = [k \in (DOMAIN proxies) \cup {key} |->
                             IF k = key THEN new ELSE proxies[k]]
    /\ UNCHANGED <<tables, hrouter, scheme, upd, returned, routerVars, auxVars>>

\* getProxy under the write lock: the second look, then build and store;
\* the request is forwarded through the proxy returned
ReqGetProxyWrite(i) ==
    /\ reqs[i].pc = "lock"
    /\ LET q   == reqs[i]
           key == ProxyKey(q.route)
           new == buildProxy(TargetURL(q.route), q.route.PassHostHeader)
       IN  IF key \in DOMAIN proxies
             THEN /\ reqs' = [reqs EXCEPT ![i] = Forward(q, proxies[key])]
                  /\ UNCHANGED proxies
             ELSE /\ reqs' = [reqs EXCEPT ![i] = Forward(q, new)]
                  /\ proxies' = [k \in (DOMAIN proxies) \cup {key} |->
                                    IF k = key THEN new ELSE proxies[k]]
    /\ UNCHANGED <<tables, hrouter, scheme, upd, returned, routerVars, auxVars>>

\* the router updated in place instead: the instance that is published is
\* given the new routes, and the pointer stored refers to an equal table
PublishTableInPlace(ts, r) ==
    Append([k \in 1..Len(ts) |-> IF k = Len(ts) THEN r ELSE ts[k]], r)

\* newRouter := router.New(newRoutes): New allocates a Router of its own,
\* the routers built before keep their routes, wildcards and redirects
PublishTable(ts, r) == Append(ts, r)

\* reload: newRouter := router.New(newRoutes), then UpdateRouter up to
\* h.router.Store(r).  reload holds its mutex: one UpdateRouter at a time.
\* The reloads here are those of a manifest whose routes have changed.
UpdStore ==
    /\ upd.pc = "idle"
    /\ Len(tables) <= MaxReloads
    /\ \E routes \in HandlerTables :
          /\ RouterNew(routes) # tables[hrouter]
          /\ tables' = PublishTable(tables, RouterNew(routes))
          /\ hrouter' = StoreRouter(hrouter, Len(tables) + 1)
    /\ upd' = [pc |-> "stored"]
    /\ UNCHANGED <<scheme, proxies, reqs, returned, routerVars, auxVars>>

\* UpdateRouter: the cache cleared under the lock, and the return
UpdClear ==
    /\ upd.pc = "stored"
    /\ proxies' = EmptyMap
    /\ upd' = [pc |-> "idle"]
    /\ returned' = returned + 1
    /\ UNCHANGED <<tables, hrouter, scheme, reqs, routerVars, auxVars>>

HandlerNext ==
    \/ \E i \in ReqIds : ReqStart(i)
    \/ \E i \in ReqIds : ReqGetProxyRead(i)
    \/ \E i \in ReqIds : ReqGetProxyWrite(i)
    \/ UpdStore
    \/ UpdClear

SpecHandler == HandlerInit /\ [][HandlerNext]_vars

-----------------------------------------------------------------------------
(* Package proxy: normalizeWebSocketHeaders.  A header key is the sequence  *)
(* of its words and hyphens; a header map gives each key it holds the      *)
(* sequence of its values.                                                 *)

\* strings.Replace(s, old, new, 1), old and new being one word
RECURSIVE ReplaceFirst(_, _, _)
ReplaceFirst(s, old, new) ==
    IF s = <<>> THEN s
    ELSE IF Head(s) = old THEN <<new>> \o Tail(s)
    ELSE <<Head(s)>> \o ReplaceFirst(Tail(s), old, new)

WSKey(word, last) == <<"Sec", "-", word, "-", last>>

wsHeaders ==
    << WSKey("Websocket", "Key"), WSKey("Websocket", "Version"),
       WSKey("Websocket", "Protocol"), WSKey("Websocket", "Extensions"),
       WSKey("Websocket", "Accept") >>

\* the body of the loop for one name: delete(h, name), then
\* h[canonical] = values
NormalizeOne(h, name) ==
    IF name \in DOMAIN h
      THEN LET canonical == ReplaceFirst(name, "Websocket", "WebSocket")
           IN  [k \in ((DOMAIN h) \ {name}) \cup {canonical} |->
                   IF k = canonical THEN h[name] ELSE h[k]]
      ELSE h

RECURSIVE NormalizeAll(_, _)
NormalizeAll(h, names) ==
    IF names = <<>> THEN h
    ELSE NormalizeAll(NormalizeOne(h, Head(names)), Tail(names))

\* a normalization that carries over the first value of a header only
normalizeWebSocketHeadersFirstValue(h) ==
    LET n == NormalizeAll(h, wsHeaders)
    IN  [k \in DOMAIN n |->
            IF k \in DOMAIN h \/ n[k] = <<>> THEN n[k] ELSE <<Head(n[k])>>]

\* normalizeWebSocketHeaders: the header map afterwards
normalizeWebSocketHeaders(h) == NormalizeAll(h, wsHeaders)

\* the keys of the header maps given: the five names as net/http stores
\* them, one name in the form the function writes, one other header
HeaderKeys ==
    Range(wsHeaders) \cup {WSKey("WebSocket", "Key"), <<"Upgrade">>}

\* the header maps over some of the keys given; the values of a header are
\* none, one, or three with one twice
HeaderInputs(all) ==
    UNION { [keys -> {<<>>, <<"a">>, <<"b", "a", "b">>}] : keys \in SUBSET all }

WSInit ==
    /\ rt = RouterNew(<<>>)
    /\ call = NoCall
    /\ HandlerIdle
    /\ AuxIdle

\* the Rewrite closure calls normalizeWebSocketHeaders(pr.Out.Header); the
\* function is applied a second time to its own result
CallNormalize ==
    /\ call = NoCall
    /\ \E h \in HeaderInputs(HeaderKeys) :
          call' = [op |-> "normalizeWebSocketHeaders", h |-> h,
                   res |-> normalizeWebSocketHeaders(h),
                   again |-> normalizeWebSocketHeaders(normalizeWebSocketHeaders(h))]
    /\ UNCHANGED <<rt, handlerVars, auxVars>>

SpecWS == WSInit /\ [][CallNormalize]_vars

-----------------------------------------------------------------------------
(* Package passthrough: extractSNI.  A byte is a number in 0..255, data    *)
(* is a sequence of bytes, and positions are Go's 0-based positions.  A    *)
(* read of data[pos] with pos outside the data is a run-time panic: the    *)
(* result then has panic set.                                              *)

SNIResult(name, err, panic) == [name |-> name, err |-> err, panic |-> panic]

\* data[pos] can be read
InData(data, pos) == pos >= 0 /\ pos < Len(data)

\* int(data[pos])<<8 | int(data[pos+1])
U16(data, pos) == data[pos + 1] * 256 + data[pos + 2]

\* the server_name extension read without the "pos+3 > end" test
ParseServerNameUnchecked(data, pos0, end) ==
    IF pos0 + 2 > end THEN SNIResult(<<>>, "no SNI", FALSE)
    ELSE LET pos == pos0 + 2
         IN  IF ~InData(data, pos + 2) THEN SNIResult(<<>>, "", TRUE)
             ELSE LET nameType == data[pos + 1]
                      nameLen  == U16(data, pos + 1)
                      p        == pos + 3
                  IN  IF nameType = 0 /\ p + nameLen <= end
                        THEN IF p + nameLen > Len(data)
                               THEN SNIResult(<<>>, "", TRUE)
                               ELSE SNIResult(SubSeq(data, p + 1, p + nameLen), "", FALSE)
                        ELSE SNIResult(<<>>, "no SNI", FALSE)

\* extractSNI, the body of "if extType == 0 && pos+extLen <= end": pos0 is
\* the position after the extension's type and length
ParseServerName(data, pos0, end) ==
    IF pos0 + 2 > end THEN SNIResult(<<>>, "no SNI", FALSE)
    ELSE LET pos == pos0 + 2
         IN  IF pos + 3 > end THEN SNIResult(<<>>, "no SNI", FALSE)
             ELSE IF ~InData(data, pos + 2) THEN SNIResult(<<>>, "", TRUE)
             ELSE LET nameType == data[pos + 1]
                      nameLen  == U16(data, pos + 1)
                      p        == pos + 3
                  IN  IF nameType = 0 /\ p + nameLen <= end
                        THEN IF p + nameLen > Len(data)
                               THEN SNIResult(<<>>, "", TRUE)
                               ELSE SNIResult(SubSeq(data, p + 1, p + nameLen), "", FALSE)
                        ELSE SNIResult(<<>>, "no SNI", FALSE)

\* a loop over the extensions that gives up at the first extension that is
\* not server_name
ParseExtensionsFirstOnly(data, pos, end) ==
    IF pos + 4 > end THEN SNIResult(<<>>, "no SNI", FALSE)
    ELSE IF ~InData(data, pos + 3) THEN SNIResult(<<>>, "", TRUE)
    ELSE IF U16(data, pos) = 0 /\ pos + 4 + U16(data, pos + 2) <= end
      THEN ParseServerName(data, pos + 4, end)
    ELSE SNIResult(<<>>, "no SNI", FALSE)

\* extractSNI, the loop "for pos+4 <= end"
RECURSIVE ParseExtensions(_, _, _)
ParseExtensions(data, pos, end) ==
    IF pos + 4 > end THEN SNIResult(<<>>, "no SNI", FALSE)
    ELSE IF ~InData(data, pos + 3) THEN SNIResult(<<>>, "", TRUE)
    ELSE LET extType == U16(data, pos)
             extLen  == U16(data, pos + 2)
             p       == pos + 4
         IN  IF extType = 0 /\ p + extLen <= end
               THEN ParseServerName(data, p, end)
               ELSE ParseExtensions(data, p + extLen, end)

\* extractSNI.  recordLen is computed by the code and never used.
extractSNI(data) ==
    IF Len(data) < 5 THEN SNIResult(<<>>, "too short", FALSE)
    ELSE IF data[1] # 22 THEN SNIResult(<<>>, "not TLS handshake", FALSE)
    ELSE IF 5 >= Len(data) \/ data[6] # 1
      THEN SNIResult(<<>>, "not ClientHello", FALSE)
    ELSE IF 9 + 2 > Len(data) THEN SNIResult(<<>>, "truncated", FALSE)
    ELSE IF 11 + 32 > Len(data) THEN SNIResult(<<>>, "truncated", FALSE)
    ELSE IF 43 + 1 > Len(data) THEN SNIResult(<<>>, "truncated", FALSE)
    ELSE LET pos1 == 43 + 1 + data[44]
         IN  IF pos1 + 2 > Len(data) THEN SNIResult(<<>>, "truncated", FALSE)
             ELSE LET pos2 == pos1 + 2 + U16(data, pos1)
                  IN  IF pos2 + 1 > Len(data) THEN SNIResult(<<>>, "truncated", FALSE)
                      ELSE LET pos3 == pos2 + 1 + data[pos2 + 1]
                           IN  IF pos3 + 2 > Len(data)
                                 THEN SNIResult(<<>>, "truncated", FALSE)
                                 ELSE LET pos4 == pos3 + 2
                                          e    == pos4 + U16(data, pos3)
                                          end  == IF e > Len(data) THEN Len(data) ELSE e
                                      IN  ParseExtensions(data, pos4, end)

-----------------------------------------------------------------------------
(* Inputs of extractSNI: the ClientHello of TestExtractSNI with shorter    *)
(* names, with and without a session id, with the server_name extension    *)
(* first, second or absent; each with one byte overwritten, and cut at     *)
(* every length.                                                           *)

MaxNameLen == 2

U16Bytes(n) == <<n \div 256, n % 256>>

\* a ClientHello: the record, with the 0-based position of the end of the
\* server name (0: no server_name extension)
ClientHello(sid, before, name, hasSNI) ==
    LET sniExt == IF hasSNI
                    THEN <<0, 0>> \o U16Bytes(Len(name) + 5)
                           \o U16Bytes(Len(name) + 3) \o <<0>>
                           \o U16Bytes(Len(name)) \o name
                    ELSE <<>>
        exts   == before \o sniExt \o <<0, 13, 0, 4, 0, 2, 4, 1>>
        body   == <<3, 3>> \o [i \in 1..32 |-> i - 1] \o <<Len(sid)>> \o sid
                    \o <<0, 2, 0, 47>> \o <<1, 0>> \o U16Bytes(Len(exts)) \o exts
        hs     == <<1, 0>> \o U16Bytes(Len(body)) \o body
    IN  [bytes   |-> <<22, 3, 1>> \o U16Bytes(Len(hs)) \o hs,
         name    |-> IF hasSNI THEN name ELSE <<>>,
         nameEnd |-> IF hasSNI
                       THEN 9 + 34 + 1 + Len(sid) + 4 + 2 + 2 + Len(before)
                              + 9 + Len(name)
                       ELSE 0]

ClientHellos ==
    UNION { { ClientHello(<<>>, <<>>, [i \in 1..n |-> 96 + i], TRUE),
              ClientHello(<<7>>, <<0, 10, 0, 2, 0, 23>>, [i \in 1..n |-> 96 + i], TRUE) }
            : n \in 1..MaxNameLen }
      \cup { ClientHello(<<>>, <<>>, <<>>, FALSE) }

\* the bytes put in place of one byte of a ClientHello
Overwrites == {0, 1, 255}

\* a ClientHello as it is, or with one byte outside the random overwritten
Overwritten(hello) ==
    {hello} \cup
    { [i \in 1..Len(hello) |-> IF i = k THEN v ELSE hello[i]] :
        k \in (1..Len(hello)) \ (12..43), v \in Overwrites }

\* every beginning of every overwritten form of the ClientHellos given
SNIInputs(hellos) ==
    UNION { { SubSeq(d, 1, n) : n \in 0..Len(d) } :
            d \in UNION { Overwritten(H.bytes) : H \in hellos } }

\* a TLS record with a handshake message as a client builds it: the record
\* type, the handshake type, the session id, the cipher suites, the
\* compression methods, the extensions before and after server_name, and
\* the entries of the server_name list (each a name type and a name)
EncodeHello(h) ==
    LET entry(e) == <<e.type>> \o U16Bytes(Len(e.name)) \o e.name
        list   == IF Len(h.entries) = 1 THEN entry(h.entries[1])
                  ELSE entry(h.entries[1]) \o entry(h.entries[2])
        sniExt == <<0, 0>> \o U16Bytes(Len(list) + 2) \o U16Bytes(Len(list)) \o list
        exts   == h.before \o (IF h.sni THEN sniExt ELSE <<>>) \o h.after
        body   == <<3, 3>> \o [i \in 1..32 |-> i - 1]
                    \o <<Len(h.sid)>> \o h.sid
                    \o U16Bytes(Len(h.ciphers)) \o h.ciphers
                    \o <<Len(h.comp)>> \o h.comp
                    \o U16Bytes(Len(exts)) \o exts
        hs     == <<h.hsType, 0>> \o U16Bytes(Len(body)) \o body
    IN  <<h.recType, 3, 1>> \o U16Bytes(Len(hs)) \o hs

\* the server names: "a" and "." in every order, up to maxLen bytes
HelloNames(maxLen) ==
    UNION { [1..n -> {97, 46}] : n \in 1..maxLen }

\* the handshake records given to extractSNI: session ids of 0, 1 and 2
\* bytes, one and two cipher suites (the two read as the head of a
\* server_name extension), one and two compression methods, no, one and
\* two extensions before and no or one after, one or two entries in the
\* server_name list, and the forms that are not a ClientHello with a host
\* name first
Hellos(maxLen) ==
    [recType : {22, 23}, hsType : {1, 2}, sni : BOOLEAN,
     sid     : {<<>>, <<7>>, <<0, 0>>},
     ciphers : {<<0, 47>>, <<0, 0, 0, 5>>},
     comp    : {<<0>>, <<1, 0>>},
     before  : {<<>>, <<0, 10, 0, 2, 0, 23>>, <<0, 23, 0, 0, 255, 1, 0, 1, 0>>},
     after   : {<<>>, <<0, 13, 0, 4, 0, 2, 4, 1>>},
     entries : { <<[type |-> t, name |-> n]>> :
                    t \in {0, 1}, n \in HelloNames(maxLen) }
               \cup { <<[type |-> t, name |-> n], [type |-> 0, name |-> <<122>>]>> :
                    t \in {0, 1}, n \in HelloNames(maxLen) }]

SNIInit ==
    /\ AuxIdle
    /\ rt = RouterNew(<<>>)
    /\ call = NoCall
    /\ HandlerIdle

\* sni, err := extractSNI(buf[:n]), buf[:n] being what the first Read of an
\* accepted connection returned
CallExtractSNI ==
    /\ sni.op = "none"
    /\ \E data \in SNIInputs(ClientHellos) :
          sni' = [op |-> "extractSNI", data |-> data, res |-> extractSNI(data)]
    /\ UNCHANGED <<routerVars, handlerVars, replayVars, connVars, mn, wt, sv>>

\* the same call on a record a client built
CallExtractSNIHello ==
    /\ sni.op = "none"
    /\ \E h \in Hellos(MaxNameLen) :
          sni' = [op |-> "extractSNI", data |-> EncodeHello(h), hello |-> h,
                  res |-> extractSNI(EncodeHello(h))]
    /\ UNCHANGED <<routerVars, handlerVars, replayVars, connVars, mn, wt, sv>>

SNINext ==
    \/ CallExtractSNI
    \/ CallExtractSNIHello

SpecSNI == SNIInit /\ [][SNINext]_vars

-----------------------------------------------------------------------------
(* Package passthrough: replayConn.  Read and Close are modelled by the    *)
(* reads and writes they make of the replayConn's fields, one task calling *)
(* Read and another calling Close: replayConn has no lock.  The bytes of   *)
(* a connection are numbered 1, 2, 3, ... in the order the client sent     *)
(* them.                                                                   *)

MaxPeek   == 2
MaxSock   == 2
MaxBuf    == 2
MaxCloses == 2

Stream(from, to) == [i \in 1..(to - from + 1) |-> from + i - 1]

\* a Put that does not give the buffer back
PoolPutLost(p, which) == p

\* peekBufPool.Put(buf) and copyBufPool.Put(buf)
PoolPut(p, which) ==
    IF which = "peek" THEN [p EXCEPT !.peekPuts = p.peekPuts + 1]
    ELSE [p EXCEPT !.copyPuts = p.copyPuts + 1]

\* a copy that forgets the bytes of c.buf that did not fit in b
ReplayCopyDropRest(size, buf) ==
    LET n == IF size < Len(buf) THEN size ELSE Len(buf)
    IN  [n |-> n, out |-> SubSeq(buf, 1, n), rest |-> <<>>]

\* n := copy(b, c.buf); c.buf = c.buf[n:]
ReplayCopy(size, buf) ==
    LET n == IF size < Len(buf) THEN size ELSE Len(buf)
    IN  [n |-> n, out |-> SubSeq(buf, 1, n), rest |-> SubSeq(buf, n + 1, Len(buf))]

\* &replayConn{Conn: conn, buf: buf[:n], pool: &peekBufPool, poolBuf: buf}:
\* the peek buffer has been taken from the pool and holds the first n bytes
ReplayInit ==
    /\ \E n \in 1..MaxPeek :
          rc = [buf |-> Stream(1, n), pool |-> TRUE, poolBuf |-> TRUE,
                sock |-> Stream(n + 1, n + MaxSock), pos |-> 0, closed |-> FALSE]
    /\ rd = [pc |-> "idle", got |-> <<>>]
    /\ cl = [pc |-> "idle", calls |-> 0]
    /\ pool = [peekGets |-> 1, peekPuts |-> 0, copyGets |-> 0, copyPuts |-> 0]
    /\ sni = [op |-> "none"]
    /\ cn = [pc |-> "none", n |-> 0, path |-> "none", dials |-> 0]
    /\ sp = [peer |-> [client |-> NoPeer, backend |-> NoPeer],
             dir  |-> [c2b |-> NoDir, b2c |-> NoDir]]
    /\ mn = NoMain
    /\ wt = NoWatch
    /\ sv = NoServe
    /\ rt = RouterNew(<<>>)
    /\ call = NoCall
    /\ HandlerIdle

\* Read(b) with len(b) = size, up to the test of c.pool; with c.buf empty,
\* the whole of c.Conn.Read(b)
ReadCall ==
    /\ rd.pc = "idle"
    /\ \E size \in 1..MaxBuf :
          IF Len(rc.buf) > 0
            THEN LET c == ReplayCopy(size, rc.buf)
                 IN  /\ rc' = [rc EXCEPT !.buf = c.rest]
                     /\ rd' = [pc |-> "test", got |-> rd.got \o c.out]
            ELSE \E n \in 1..size :
                    /\ ~rc.closed
                    /\ rc.pos + n <= Len(rc.sock)
                    /\ rc' = [rc EXCEPT !.pos = rc.pos + n]
                    /\ rd' = [rd EXCEPT !.got = rd.got \o SubSeq(rc.sock, rc.pos + 1, rc.pos + n)]
    /\ UNCHANGED <<cl, pool, sni, connVars, routerVars, handlerVars, mn, wt, sv>>

\* if len(c.buf) == 0 && c.pool != nil && c.poolBuf != nil
ReadTest ==
    /\ rd.pc = "test"
    /\ rd' = [rd EXCEPT !.pc = IF Len(rc.buf) = 0 /\ rc.pool /\ rc.poolBuf
                                 THEN "put" ELSE "idle"]
    /\ UNCHANGED <<rc, cl, pool, sni, connVars, routerVars, handlerVars, mn, wt, sv>>

\* c.pool.Put(c.poolBuf)
ReadPut ==
    /\ rd.pc = "put"
    /\ pool' = PoolPut(pool, "peek")
    /\ rd' = [rd EXCEPT !.pc = "clear"]
    /\ UNCHANGED <<rc, cl, sni, connVars, routerVars, handlerVars, mn, wt, sv>>

\* c.pool = nil; c.poolBuf = nil; return n, nil
ReadClear ==
    /\ rd.pc = "clear"
    /\ rc' = [rc EXCEPT !.pool = FALSE, !.poolBuf = FALSE]
    /\ rd' = [rd EXCEPT !.pc = "idle"]
    /\ UNCHANGED <<cl, pool, sni, connVars, routerVars, handlerVars, mn, wt, sv>>

\* Close: if c.pool != nil && c.poolBuf != nil
CloseTest ==
    /\ cl.pc = "idle"
    /\ cl.calls < MaxCloses
    /\ cl' = [cl EXCEPT !.pc = IF rc.pool /\ rc.poolBuf THEN "put" ELSE "close"]
    /\ UNCHANGED <<rc, rd, pool, sni, connVars, routerVars, handlerVars, mn, wt, sv>>

\* c.pool.Put(c.poolBuf)
ClosePut ==
    /\ cl.pc = "put"
    /\ pool' = PoolPut(pool, "peek")
    /\ cl' = [cl EXCEPT !.pc = "clear"]
    /\ UNCHANGED <<rc, rd, sni, connVars, routerVars, handlerVars, mn, wt, sv>>

\* c.pool = nil; c.poolBuf = nil
CloseClear ==
    /\ cl.pc = "clear"
    /\ rc' = [rc EXCEPT !.pool = FALSE, !.poolBuf = FALSE]
    /\ cl' = [cl EXCEPT !.pc = "close"]
    /\ UNCHANGED <<rd, pool, sni, connVars, routerVars, handlerVars, mn, wt, sv>>

\* return c.Conn.Close()
CloseConn ==
    /\ cl.pc = "close"
    /\ rc' = [rc EXCEPT !.closed = TRUE]
    /\ cl' = [pc |-> "idle", calls |-> cl.calls + 1]
    /\ UNCHANGED <<rd, pool, sni, connVars, routerVars, handlerVars, mn, wt, sv>>

ReplayNext ==
    \/ ReadCall
    \/ ReadTest
    \/ ReadPut
    \/ ReadClear
    \/ CloseTest
    \/ ClosePut
    \/ CloseClear
    \/ CloseConn

SpecReplay == ReplayInit /\ [][ReplayNext]_vars

-----------------------------------------------------------------------------
(* Package passthrough: one accepted connection, from handleConn to the    *)
(* end of the connection.  handleTLSConn and handleHTTPConn take the same  *)
(* steps.  The client's bytes are numbered 1, 2, 3, ... and the backend's  *)
(* 101, 102, ...; a write to a socket whose peer has reset the connection  *)
(* fails, any other write delivers its bytes.                              *)

MaxSend == 1

\* the socket a direction reads, the socket it writes, and the number of the
\* first byte the peer of a socket sends after the peeked bytes
Src(d) == IF d = "c2b" THEN "client" ELSE "backend"
Dst(d) == IF d = "c2b" THEN "backend" ELSE "client"
FirstByte(peer) == IF peer = "client" THEN cn.n + 1 ELSE 101

ConnInit ==
    /\ cn = [pc |-> "accepted", n |-> 0, path |-> "none", dials |-> 0]
    /\ sp = [peer |-> [client |-> NoPeer, backend |-> NoPeer],
             dir  |-> [c2b |-> NoDir, b2c |-> NoDir]]
    /\ mn = NoMain
    /\ wt = NoWatch
    /\ sv = NoServe
    /\ rc = [buf |-> <<>>, pool |-> FALSE, poolBuf |-> FALSE,
             sock |-> <<>>, pos |-> 0, closed |-> FALSE]
    /\ rd = [pc |-> "idle", got |-> <<>>]
    /\ cl = [pc |-> "idle", calls |-> 0]
    /\ pool = [peekGets |-> 0, peekPuts |-> 0, copyGets |-> 0, copyPuts |-> 0]
    /\ sni = [op |-> "none"]
    /\ rt = RouterNew(<<>>)
    /\ call = NoCall
    /\ HandlerIdle

\* buf := peekBufPool.Get().([]byte)
ConnGet ==
    /\ cn.pc = "accepted"
    /\ pool' = [pool EXCEPT !.peekGets = pool.peekGets + 1]
    /\ cn' = [cn EXCEPT !.pc = "read"]
    /\ UNCHANGED <<sp, rc, rd, cl, sni, routerVars, handlerVars, mn, wt, sv>>

\* n, err := conn.Read(buf): an error (end of file included), or n bytes
ConnRead ==
    /\ cn.pc = "read"
    /\ \/ /\ pool' = PoolPut(pool, "peek")
          /\ cn' = [cn EXCEPT !.pc = "returned", !.path = "read error"]
          /\ sp' = [sp EXCEPT !.peer.client.closed = TRUE]
       \/ \E n \in 0..MaxPeek :
             /\ cn' = [cn EXCEPT !.pc = "peeked", !.n = n]
             /\ UNCHANGED <<pool, sp>>
    /\ UNCHANGED <<rc, rd, cl, sni, routerVars, handlerVars, mn, wt, sv>>

\* extractSNI / extractHTTPHost, then r.GetPassthrough / GetPassthroughPort:
\* no name, a passthrough route, or none.  Nothing is extracted from no bytes.
ConnDispatch ==
    /\ cn.pc = "peeked"
    /\ \/ /\ pool' = PoolPut(pool, "peek")
          /\ cn' = [cn EXCEPT !.pc = "returned", !.path = "no name"]
          /\ sp' = [sp EXCEPT !.peer.client.closed = TRUE]
          /\ UNCHANGED rc
       \/ /\ cn.n > 0
          /\ cn' = [cn EXCEPT !.pc = "dial", !.path = "passthrough"]
          /\ UNCHANGED <<pool, sp, rc>>
       \/ /\ cn.n > 0
          /\ cn' = [cn EXCEPT !.pc = "serve", !.path = "terminate"]
          /\ rc' = [buf |-> Stream(1, cn.n), pool |-> TRUE, poolBuf |-> TRUE,
                    sock |-> Stream(cn.n + 1, cn.n + MaxSock), pos |-> 0,
                    closed |-> FALSE]
          /\ UNCHANGED <<pool, sp>>
    /\ UNCHANGED <<rd, cl, sni, routerVars, handlerVars, mn, wt, sv>>

\* a proxyTCP that answers the client when the dial fails
ProxyDialAnswers ==
    /\ cn.pc = "dial"
    /\ \/ /\ cn' = [cn EXCEPT !.pc = "put", !.path = "dial failure",
                                !.dials = @ + 1]
          /\ sp' = [sp EXCEPT !.peer.client.closed = TRUE,
                              !.peer.client.recv = <<502>>]
       \/ /\ cn' = [cn EXCEPT !.pc = "write", !.dials = @ + 1]
          /\ UNCHANGED sp
    /\ UNCHANGED <<rc, rd, cl, pool, sni, routerVars, handlerVars, mn, wt, sv>>

\* proxyTCP: net.DialTimeout, and client.Close() when it fails
ProxyDial ==
    /\ cn.pc = "dial"
    /\ \/ /\ cn' = [cn EXCEPT !.pc = "put", !.path = "dial failure",
                                !.dials = @ + 1]
          /\ sp' = [sp EXCEPT !.peer.client.closed = TRUE]
       \/ /\ cn' = [cn EXCEPT !.pc = "write", !.dials = @ + 1]
          /\ UNCHANGED sp
    /\ UNCHANGED <<rc, rd, cl, pool, sni, routerVars, handlerVars, mn, wt, sv>>

\* a proxyTCP that starts the two goroutines without writing the peeked
\* bytes to the backend
ProxyStartWithoutPeek ==
    /\ cn.pc = "write"
    /\ cn' = [cn EXCEPT !.pc = "wait", !.path = "splice"]
    /\ sp' = [sp EXCEPT !.dir.c2b.pc = "start", !.dir.b2c.pc = "start"]
    /\ UNCHANGED <<rc, rd, cl, pool, sni, routerVars, handlerVars, mn, wt, sv>>

\* proxyTCP: backendConn.Write(initialData), then wg.Add(2) and the two
\* go statements
ProxyWriteInitial ==
    /\ cn.pc = "write"
    /\ \/ /\ cn' = [cn EXCEPT !.pc = "put", !.path = "write failure"]
          /\ sp' = [sp EXCEPT !.peer.client.closed = TRUE,
                              !.peer.backend.closed = TRUE,
                              !.peer.backend.err = TRUE]
       \/ /\ cn' = [cn EXCEPT !.pc = "wait", !.path = "splice"]
          /\ sp' = [sp EXCEPT !.peer.backend.recv = Stream(1, cn.n),
                              !.dir.c2b.pc = "start", !.dir.b2c.pc = "start"]
    /\ UNCHANGED <<rc, rd, cl, pool, sni, routerVars, handlerVars, mn, wt, sv>>

\* a copying goroutine: buf := copyBufPool.Get().([]byte)
DirStart(d) ==
    /\ sp.dir[d].pc = "start"
    /\ pool' = [pool EXCEPT !.copyGets = pool.copyGets + 1]
    /\ sp' = [sp EXCEPT !.dir[d].pc = "read"]
    /\ UNCHANGED <<cn, rc, rd, cl, sni, routerVars, handlerVars, mn, wt, sv>>

\* io.CopyBuffer: src.Read(buf) returns an error, up to MaxBuf bytes, or the
\* end of file; it waits while the peer has sent nothing more
DirRead(d) ==
    /\ sp.dir[d].pc = "read"
    /\ LET P == sp.peer[Src(d)]
       IN  IF P.err
             THEN sp' = [sp EXCEPT !.dir[d].pc = "ended", !.dir[d].failed = TRUE]
           ELSE IF P.read < P.sent
             THEN \E k \in 1..MaxBuf :
                     /\ P.read + k <= P.sent
                     /\ sp' = [sp EXCEPT
                                 !.dir[d].pc = "write",
                                 !.dir[d].held = Stream(FirstByte(Src(d)) + P.read,
                                                        FirstByte(Src(d)) + P.read + k - 1),
                                 !.peer[Src(d)].read = P.read + k]
           ELSE /\ P.fin
                /\ sp' = [sp EXCEPT !.dir[d].pc = "ended"]
    /\ UNCHANGED <<cn, rc, rd, cl, pool, sni, routerVars, handlerVars, mn, wt, sv>>

\* io.CopyBuffer: dst.Write(buf[0:nr])
DirWrite(d) ==
    /\ sp.dir[d].pc = "write"
    /\ LET P == sp.peer[Dst(d)]
       IN  IF P.err
             THEN sp' = [sp EXCEPT !.dir[d].pc = "ended", !.dir[d].failed = TRUE,
                                   !.dir[d].held = <<>>]
             ELSE sp' = [sp EXCEPT !.dir[d].pc = "read", !.dir[d].held = <<>>,
                                   !.peer[Dst(d)].recv = P.recv \o sp.dir[d].held]
    /\ UNCHANGED <<cn, rc, rd, cl, pool, sni, routerVars, handlerVars, mn, wt, sv>>

\* a goroutine that ends without shutting the write side of its destination
DirFinishNoCloseWrite(d) ==
    /\ sp.dir[d].pc = "ended"
    /\ pool' = PoolPut(pool, "copy")
    /\ sp' = [sp EXCEPT !.dir[d].pc = "done"]
    /\ UNCHANGED <<cn, rc, rd, cl, sni, routerVars, handlerVars, mn, wt, sv>>

\* copyBufPool.Put(buf); tc.CloseWrite(); wg.Done()
DirFinish(d) ==
    /\ sp.dir[d].pc = "ended"
    /\ pool' = PoolPut(pool, "copy")
    /\ sp' = [sp EXCEPT !.dir[d].pc = "done", !.peer[Dst(d)].wr = "shut"]
    /\ UNCHANGED <<cn, rc, rd, cl, sni, routerVars, handlerVars, mn, wt, sv>>

\* wg.Wait(); client.Close(); backendConn.Close()
ProxyWait ==
    /\ cn.pc = "wait"
    /\ sp.dir.c2b.pc = "done" /\ sp.dir.b2c.pc = "done"
    /\ sp' = [sp EXCEPT !.peer.client.closed = TRUE, !.peer.backend.closed = TRUE]
    /\ cn' = [cn EXCEPT !.pc = "put"]
    /\ UNCHANGED <<rc, rd, cl, pool, sni, routerVars, handlerVars, mn, wt, sv>>

\* after proxyTCP: peekBufPool.Put(buf); return
ConnPut ==
    /\ cn.pc = "put"
    /\ pool' = PoolPut(pool, "peek")
    /\ cn' = [cn EXCEPT !.pc = "returned"]
    /\ UNCHANGED <<sp, rc, rd, cl, sni, routerVars, handlerVars, mn, wt, sv>>

\* the peer of a socket sends a byte, stops sending, or resets the connection
PeerSend(peer) ==
    /\ cn.pc = "wait"
    /\ sp.peer[peer].sent < MaxSend
    /\ ~sp.peer[peer].fin /\ ~sp.peer[peer].err
    /\ sp' = [sp EXCEPT !.peer[peer].sent = sp.peer[peer].sent + 1]
    /\ UNCHANGED <<cn, rc, rd, cl, pool, sni, routerVars, handlerVars, mn, wt, sv>>

PeerStop(peer) ==
    /\ cn.pc = "wait"
    /\ ~sp.peer[peer].fin /\ ~sp.peer[peer].err
    /\ \/ sp' = [sp EXCEPT !.peer[peer].fin = TRUE]
       \/ sp' = [sp EXCEPT !.peer[peer].err = TRUE]
    /\ UNCHANGED <<cn, rc, rd, cl, pool, sni, routerVars, handlerVars, mn, wt, sv>>

\* a server that goes on reading from the replayConn after it has begun to
\* close it
ServeReadAfterClose ==
    /\ cn.pc = "serve"
    /\ ReadCall \/ ReadTest \/ ReadPut \/ ReadClear

\* server.Serve(singleLn): the goroutine serving the connection reads from
\* the replayConn (the TLS handshake, the requests) and closes it
ServeRead ==
    /\ cn.pc = "serve" /\ cl.pc = "idle" /\ cl.calls = 0
    /\ ReadCall \/ ReadTest \/ ReadPut \/ ReadClear

ServeClose ==
    /\ cn.pc = "serve" /\ rd.pc = "idle"
    /\ CloseTest \/ ClosePut \/ CloseClear \/ CloseConn

\* the steps of the proxy, and the steps of the two peers
ConnSteps ==
    ConnGet \/ ConnRead \/ ConnDispatch \/ ProxyDial \/ ProxyWriteInitial
        \/ ProxyWait \/ ConnPut \/ ServeRead \/ ServeClose

DirSteps(d) == DirStart(d) \/ DirRead(d) \/ DirWrite(d) \/ DirFinish(d)

ConnNext ==
    \/ ConnSteps
    \/ \E d \in {"c2b", "b2c"} : DirSteps(d)
    \/ \E peer \in {"client", "backend"} : PeerSend(peer) \/ PeerStop(peer)

SpecConn == ConnInit /\ [][ConnNext]_vars

\* each goroutine of the proxy is scheduled; the peers are not obliged to
\* send, to stop or to reset
SpecConnFair ==
    /\ SpecConn
    /\ WF_vars(ConnSteps)
    /\ WF_vars(DirSteps("c2b"))
    /\ WF_vars(DirSteps("b2c"))

-----------------------------------------------------------------------------
(* Package compose: the routes of a manifest.  A service is its name and   *)
(* its labels; a label that is absent reads as the empty string.           *)

Label(service, name) ==
    IF name \in DOMAIN service.Labels THEN service.Labels[name] ELSE <<>>

Digits == <<"0", "1", "2", "3", "4", "5", "6", "7", "8", "9">>

DigitValue(c) == (CHOOSE i \in DOMAIN Digits : Digits[i] = c) - 1

\* the digits of strconv.Atoi, most significant first; acc is the value of
\* the digits read
RECURSIVE AtoiDigits(_, _)
AtoiDigits(s, acc) ==
    IF s = <<>> THEN [err |-> FALSE, n |-> acc]
    ELSE IF Head(s) \notin Range(Digits) THEN [err |-> TRUE, n |-> 0]
    ELSE AtoiDigits(Tail(s), 10 * acc + DigitValue(Head(s)))

\* strconv.Atoi: an optional sign, then at least one digit, nothing else
Atoi(s) ==
    LET signed == s # <<>> /\ Head(s) \in {"+", "-"}
        digits == IF signed THEN Tail(s) ELSE s
        v      == AtoiDigits(digits, 0)
    IN  IF digits = <<>> \/ v.err THEN [err |-> TRUE, n |-> 0]
        ELSE IF signed /\ Head(s) = "-" THEN [err |-> FALSE, n |-> 0 - v.n]
        ELSE v

\* strings.Split(s, ","): the pieces between the commas
RECURSIVE SplitComma(_, _)
SplitComma(s, piece) ==
    IF s = <<>> THEN <<piece>>
    ELSE IF Head(s) = "," THEN <<piece>> \o SplitComma(Tail(s), <<>>)
    ELSE SplitComma(Tail(s), Append(piece, Head(s)))

\* strings.TrimSpace
RECURSIVE TrimSpace(_)
TrimSpace(s) ==
    IF s = <<>> THEN s
    ELSE IF Head(s) = " " THEN TrimSpace(Tail(s))
    ELSE IF s[Len(s)] = " " THEN TrimSpace(SubSeq(s, 1, Len(s) - 1))
    ELSE s

sTrue  == <<"t", "r", "u", "e">>
sFalse == <<"f", "a", "l", "s", "e">>

\* the label liteproxy.passthrough, which marks the route for raw forwarding
PassthroughLabel(route, service) ==
    [route EXCEPT !.Passthrough = (Label(service, "liteproxy.passthrough") = sTrue)]

\* extractRoute: (route, err); the route is nil for a service that has
\* neither a host nor a port label
extractRoute(service) ==
    LET host    == Label(service, "liteproxy.host")
        portStr == Label(service, "liteproxy.port")
        port    == Atoi(portStr)
        path    == Label(service, "liteproxy.path")
        passhost    == Label(service, "liteproxy.passhost")
        stripPrefix == Label(service, "liteproxy.strip_prefix")
        redirectFrom == Label(service, "liteproxy.redirect_from")
        domains == IF redirectFrom = <<>> THEN <<>>
                   ELSE LET pieces == SplitComma(redirectFrom, <<>>)
                        IN  [i \in DOMAIN pieces |-> TrimSpace(pieces[i])]
    IN  IF host = <<>> /\ portStr = <<>> THEN [err |-> FALSE, route |-> Nil]
        ELSE IF host = <<>> THEN [err |-> TRUE, route |-> Nil]
        ELSE IF portStr = <<>> THEN [err |-> TRUE, route |-> Nil]
        ELSE IF port.err THEN [err |-> TRUE, route |-> Nil]
        ELSE [err |-> FALSE,
              route |-> PassthroughLabel(
                          Route(host,
                                IF path # <<>> THEN path ELSE <<"/">>,
                                service.Name, port.n,
                                passhost # <<>> /\ passhost = sTrue,
                                stripPrefix = <<>> \/ stripPrefix # sFalse,
                                domains),
                          service)]

\* a Parse that leaves out the services whose labels are invalid
RECURSIVE ParseSkipInvalid(_)
ParseSkipInvalid(services) ==
    IF services = <<>> THEN [err |-> FALSE, routes |-> <<>>]
    ELSE LET first == extractRoute(Head(services))
             rest  == ParseSkipInvalid(Tail(services))
         IN  IF first.err \/ first.route = Nil THEN rest
             ELSE [err |-> FALSE, routes |-> <<first.route>> \o rest.routes]

\* Parse, from the loop over project.Services: (routes, err), the routes in
\* the order of the services; the first error ends the loop with no routes
RECURSIVE Parse(_)
Parse(services) ==
    IF services = <<>> THEN [err |-> FALSE, routes |-> <<>>]
    ELSE LET first == extractRoute(Head(services))
             rest  == Parse(Tail(services))
         IN  IF first.err \/ rest.err THEN [err |-> TRUE, routes |-> <<>>]
             ELSE IF first.route = Nil THEN rest
             ELSE [err |-> FALSE, routes |-> <<first.route>> \o rest.routes]

-----------------------------------------------------------------------------
(* main: the start, the reload and the listeners.                          *)

MaxAttempts == 2

\* HostPolicy: autocert.HostWhitelist(hosts...): the names the manager
\* will ask certificates for
HostWhitelist(hosts) == Range(hosts)

Service(name, labels) == [Name |-> name, Labels |-> labels]

\* the manifests, each the set of its services: one without and one with a
\* passthrough route, one with a port that is not a number among valid
\* services, one with a port but no host
Files ==
    LET web  == Service("web", ("liteproxy.host" :> hAT)
                                 @@ ("liteproxy.port" :> <<"8", "0">>)
                                 @@ ("liteproxy.redirect_from" :> <<"w", ".", "t", ",", " ", "t">>))
        db   == Service("db", <<>>)
        mail == Service("mail", ("liteproxy.host" :> hBT)
                                  @@ ("liteproxy.port" :> <<"2", "5">>)
                                  @@ ("liteproxy.passthrough" :> sTrue))
        bad  == Service("bad", ("liteproxy.host" :> hABT)
                                 @@ ("liteproxy.port" :> <<"8", "x">>))
        nohost == Service("nohost", "liteproxy.port" :> <<"8", "0">>)
    IN  [plain       |-> {web, db},
         passthrough |-> {web, mail},
         oneBad      |-> {web, mail, bad},
         noHost      |-> {nohost}]

StartFiles  == {Files.plain, Files.passthrough}
ReloadFiles == {Files.plain, Files.passthrough, Files.oneBad, Files.noHost}

\* project.Services in an order the loader may hand them over in
Orders(file) ==
    {s \in [1..Cardinality(file) -> file] : Range(s) = file}

\* the names sent by the clients: the SNI on the TLS port, the Host header
\* on the HTTP port
ConnNames == {hAT, hBT, hBTport, hWT}

\* the Host of a request that was not peeked: of a later request of a
\* connection, and of a request inside a TLS connection
RequestHosts == {hAT, hBT}

NoConn == [port |-> "none", served |-> TRUE]

\* the handler behind a port when a connection is not forwarded raw: with
\* HTTPS on, the HTTP port answers the ACME challenges and redirects
PortHandler(port, https) ==
    IF port = "http" /\ https THEN "acme" ELSE "handler"

\* main up to "Start servers": the manifest is parsed (a failure ends the
\* process), the router rtr and the handler are made, the watcher and the
\* signal goroutine are set up, so that reload can run from here on;
\* certManager, httpListener and httpsListener are still nil.
MainInit ==
    /\ \E file \in StartFiles : \E services \in Orders(file) : \E https \in BOOLEAN :
          LET rtr == RouterNew(Parse(services).routes)
          IN  /\ tables = <<rtr>>
              /\ hrouter = 1
              /\ scheme = IF https THEN "https" ELSE "http"
              /\ mn = [pc |-> "idle", https |-> https, started |-> FALSE,
                       httpListener  |-> 0,
                       httpsListener |-> 0,
                       certHosts |-> {},
                       tlsConfig |-> {},
                       attempts |-> 0, done |-> 0, new |-> 0,
                       failed |-> FALSE, file |-> file, conn |-> NoConn]
    /\ proxies = EmptyMap
    /\ reqs = <<>>
    /\ upd = [pc |-> "idle"]
    /\ returned = 0
    /\ rt = RouterNew(<<>>)
    /\ call = NoCall
    /\ PackageIdle
    /\ wt = NoWatch
    /\ sv = NoServe

\* main from "Start servers" to the calls of Serve: the passthrough
\* listeners are made, with rtr, the router made at the start, if that
\* router holds a passthrough route.  certHosts is the whitelist of the
\* manager the variable certManager points to; tlsConfig is the whitelist
\* of the manager whose GetCertificate the tls.Config built here holds,
\* which the TLS listener and the HTTPS server use.
MainListen ==
    /\ mn.pc # "none"
    /\ ~mn.started
    /\ LET rtr == tables[1]
           hasPassthrough == HasPassthroughRoutes(rtr)
       IN  mn' = [mn EXCEPT !.started = TRUE,
                      !.httpListener  = IF hasPassthrough THEN 1 ELSE 0,
                      !.httpsListener = IF hasPassthrough /\ mn.https THEN 1 ELSE 0,
                      !.certHosts = IF mn.https THEN HostWhitelist(Hosts(rtr)) ELSE {},
                      !.tlsConfig = IF mn.https THEN HostWhitelist(Hosts(rtr)) ELSE {}]
    /\ UNCHANGED <<handlerVars, routerVars, sni, rc, rd, cl, pool, cn, sp, wt, sv>>

\* reload, from the lock to handler.UpdateRouter: a parse that fails ends
\* the reload
ReloadParse ==
    /\ mn.pc = "idle"
    /\ mn.attempts < MaxAttempts
    /\ \E file \in ReloadFiles : \E services \in Orders(file) :
          LET parsed == Parse(services)
          IN  IF parsed.err
                THEN /\ mn' = [mn EXCEPT !.attempts = @ + 1, !.failed = TRUE,
                                         !.file = file]
                     /\ UNCHANGED <<tables, hrouter, proxies>>
                ELSE /\ tables' = PublishTable(tables, RouterNew(parsed.routes))
                     /\ hrouter' = StoreRouter(hrouter, Len(tables) + 1)
                     /\ proxies' = EmptyMap
                     /\ mn' = [mn EXCEPT !.attempts = @ + 1, !.failed = FALSE,
                                         !.file = file, !.pc = "listeners",
                                         !.new = Len(tables) + 1]
    /\ UNCHANGED <<scheme, reqs, upd, returned, routerVars,
                   sni, rc, rd, cl, pool, cn, sp, wt, sv>>

\* reload, from the listeners to the unlock: the listeners that exist are
\* given the new router, and if HTTPS is on and certManager is not nil it
\* is given a new manager made by UpdateHosts; the tls.Config is not touched
ReloadListeners ==
    /\ mn.pc = "listeners"
    /\ mn' = [mn EXCEPT !.pc = "idle", !.done = @ + 1,
                        !.httpListener  = IF @ # 0 THEN mn.new ELSE 0,
                        !.httpsListener = IF @ # 0 THEN mn.new ELSE 0,
                        !.certHosts = IF mn.https /\ mn.started
                                        THEN HostWhitelist(Hosts(tables[mn.new]))
                                        ELSE @]
    /\ UNCHANGED <<handlerVars, routerVars, sni, rc, rd, cl, pool, cn, sp, wt, sv>>

\* a connection is accepted on a port and dispatched: by handleHTTPConn or
\* handleTLSConn with the listener's router if the port has a passthrough
\* listener, by the port's http.Server otherwise
MainAccept ==
    /\ mn.pc # "none"
    /\ mn.started
    /\ mn.conn.served
    /\ \E port \in {"http"} \cup (IF mn.https THEN {"tls"} ELSE {}) :
       \E name \in ConnNames :
          LET l == IF port = "http" THEN mn.httpListener ELSE mn.httpsListener
              found == IF l = 0 THEN [route |-> Nil, port |-> 0]
                       ELSE IF port = "http"
                         THEN GetPassthroughPort(tables[l], name, TRUE)
                       ELSE LET route == GetPassthrough(tables[l], name)
                            IN  [route |-> route,
                                 port |-> IF route = Nil THEN 0 ELSE route.ServicePort]
              dispatch == IF found.route # Nil THEN "passthrough"
                          ELSE PortHandler(port, mn.https)
          IN  mn' = [mn EXCEPT !.conn =
                        [port |-> port, name |-> name, dispatch |-> dispatch,
                         backend |-> IF found.route # Nil
                                       THEN <<found.route.ServiceName, found.port>>
                                       ELSE <<>>,
                         current |-> hrouter, reloads |-> mn.done, table |-> l,
                         settled |-> mn.pc = "idle",
                         served |-> dispatch # "handler", code |-> 0,
                         later |-> FALSE, host |-> <<>>, route |-> Nil]]
    /\ UNCHANGED <<handlerVars, routerVars, sni, rc, rd, cl, pool, cn, sp, wt, sv>>

\* a request of a connection given to the handler: ServeHTTP for the path
\* "/", with the proxy of the route taken from or added to the cache.  The
\* Host of the first request of a connection of the HTTP port is the one
\* that was peeked; a later request of the connection, and a request inside
\* a TLS connection, has any Host.
MainServe ==
    /\ mn.pc # "none"
    /\ mn.conn.port # "none"
    /\ mn.conn.dispatch = "handler"
    /\ \E host \in (IF mn.conn.port = "http" /\ ~mn.conn.later
                      THEN {mn.conn.name} ELSE RequestHosts) :
       LET d   == ServeDecision(tables[hrouter], host, <<"/">>)
           key == ProxyKey(d.route)
       IN  /\ mn' = [mn EXCEPT !.conn.served = TRUE,
                               !.conn.later = TRUE,
                               !.conn.host = host,
                               !.conn.route = IF d.kind = "route" THEN d.route ELSE Nil,
                               !.conn.code = IF d.kind = "redirect" THEN 301
                                             ELSE IF d.kind = "notfound" THEN 404
                                             ELSE 200]
           /\ proxies' = IF d.kind = "route" /\ key \notin DOMAIN proxies
                           THEN [k \in (DOMAIN proxies) \cup {key} |->
                                   IF k = key
                                     THEN buildProxy(TargetURL(d.route),
                                                     d.route.PassHostHeader)
                                     ELSE proxies[k]]
                           ELSE proxies
    /\ UNCHANGED <<tables, hrouter, scheme, reqs, upd, returned, routerVars,
                   sni, rc, rd, cl, pool, cn, sp, wt, sv>>

MainNext ==
    \/ MainListen
    \/ ReloadParse
    \/ ReloadListeners
    \/ MainAccept
    \/ MainServe

SpecMain == MainInit /\ [][MainNext]_vars

-----------------------------------------------------------------------------
(* Package watcher: Watch.                                                 *)
(*                                                                         *)
(* The clock counts quarters of a second, so that the 500 ms of time.After *)
(* are Debounce ticks.  The steps of the goroutine take no time on that    *)
(* scale: the clock advances only while the goroutine is parked in its     *)
(* select with no case ready, or has returned.  The file events and the    *)
(* two statements of the stop function come at any moment.  A select with  *)
(* several cases ready takes any of them.                                  *)

MaxTime == 6
MaxEvents == 3

\* time.After(500 * time.Millisecond)
Debounce == 2

\* the operations of an fsnotify event, and those that start the timer
EventOps == {"write", "create", "chmod"}
StartsTimer(op) == op \in {"write", "create"}

\* Watch has returned: the file is watched, the goroutine is at its select
\* with debounce nil, done is open
WatchInit ==
    /\ wt = [pc |-> "select", now |-> 0, q |-> <<>>, errs |-> 0, sent |-> 0,
             debounce |-> 0, done |-> FALSE, closed |-> FALSE,
             stop |-> "idle", evs |-> <<>>, calls |-> <<>>, late |-> FALSE]
    /\ tables = <<RouterNew(<<>>)>>
    /\ hrouter = 1
    /\ scheme = "http"
    /\ proxies = [b \in {} |-> NoProxy]
    /\ reqs = <<>>
    /\ upd = [pc |-> "idle"]
    /\ returned = 0
    /\ rt = RouterNew(<<>>)
    /\ call = NoCall
    /\ PackageIdle
    /\ mn = NoMain
    /\ sv = NoServe

watchUnchanged == <<routerVars, handlerVars, sni, rc, rd, cl, pool, cn, sp, mn, sv>>

\* the channel of the timer holds its value
DebounceReady == wt.debounce # 0 /\ wt.now >= wt.debounce

\* some case of the select is ready
SelectReady ==
    wt.done \/ wt.q # <<>> \/ wt.errs > 0 \/ wt.closed \/ DebounceReady

\* the watched file has an event, which waits to be received from w.Events
FileEvent ==
    /\ wt.pc # "none"
    /\ ~wt.closed
    /\ wt.sent < MaxEvents
    /\ \E op \in EventOps :
          wt' = [wt EXCEPT !.q = Append(@, op), !.sent = @ + 1,
                           !.evs = IF StartsTimer(op)
                                   THEN Append(@, wt.now) ELSE @]
    /\ UNCHANGED watchUnchanged

\* the watcher has an error, which waits to be received from w.Errors
FileError ==
    /\ wt.pc # "none"
    /\ ~wt.closed
    /\ wt.errs = 0
    /\ wt.sent < MaxEvents
    /\ wt' = [wt EXCEPT !.errs = 1, !.sent = @ + 1]
    /\ UNCHANGED watchUnchanged

\* a quarter of a second passes
WatchTick ==
    /\ wt.pc \in {"select", "exited"}
    /\ wt.pc = "select" => ~SelectReady
    /\ wt.now < MaxTime
    /\ wt' = [wt EXCEPT !.now = @ + 1]
    /\ UNCHANGED watchUnchanged

\* the select of the goroutine, with a timer that is started by the first
\* event only and is left alone while it is pending
WatchSelectKeepsTimer ==
    /\ wt.pc = "select"
    /\ \/ /\ wt.done
          /\ wt' = [wt EXCEPT !.pc = "exited"]
       \/ /\ wt.q # <<>>
          /\ wt' = [wt EXCEPT !.q = Tail(@),
                       !.debounce = IF StartsTimer(Head(wt.q)) /\ ~(@ > wt.now)
                                    THEN wt.now + Debounce ELSE @]
       \/ /\ wt.q = <<>> /\ wt.closed
          /\ wt' = [wt EXCEPT !.pc = "exited"]
       \/ /\ DebounceReady
          /\ wt' = [wt EXCEPT !.pc = "fire", !.debounce = 0]
       \/ /\ wt.errs > 0
          /\ wt' = [wt EXCEPT !.errs = 0]
    /\ UNCHANGED watchUnchanged

\* the select of the goroutine and the body of the case taken, but for the
\* call of onChange: done closed: return; an event: a Write or a Create
\* makes debounce a new timer, any other leaves it; w.Events or w.Errors
\* closed: return; the timer's value is received, once; an error is logged
WatchSelect ==
    /\ wt.pc = "select"
    /\ \/ /\ wt.done
          /\ wt' = [wt EXCEPT !.pc = "exited"]
       \/ /\ wt.q # <<>>
          /\ wt' = [wt EXCEPT !.q = Tail(@),
                              !.debounce = IF StartsTimer(Head(wt.q))
                                           THEN wt.now + Debounce ELSE @]
       \/ /\ wt.q = <<>> /\ wt.closed
          /\ wt' = [wt EXCEPT !.pc = "exited"]
       \/ /\ DebounceReady
          /\ wt' = [wt EXCEPT !.pc = "fire", !.debounce = 0]
       \/ /\ wt.errs > 0
          /\ wt' = [wt EXCEPT !.errs = 0]
    /\ UNCHANGED watchUnchanged

\* case <-debounce: the log line and onChange()
WatchFire ==
    /\ wt.pc = "fire"
    /\ wt' = [wt EXCEPT !.pc = "select",
                        !.calls = Append(@, wt.now),
                        !.late = @ \/ wt.stop = "returned"]
    /\ UNCHANGED watchUnchanged

\* stop: close(done)
StopCloseDone ==
    /\ wt.pc # "none"
    /\ wt.stop = "idle"
    /\ wt' = [wt EXCEPT !.stop = "closing", !.done = TRUE]
    /\ UNCHANGED watchUnchanged

\* stop: w.Close(), which closes w.Events and w.Errors and drops what was
\* waiting to be received; stop returns
StopCloseWatcher ==
    /\ wt.stop = "closing"
    /\ wt' = [wt EXCEPT !.stop = "returned", !.closed = TRUE,
                        !.q = <<>>, !.errs = 0]
    /\ UNCHANGED watchUnchanged

WatchNext ==
    \/ FileEvent
    \/ FileError
    \/ WatchTick
    \/ WatchSelect
    \/ WatchFire
    \/ StopCloseDone
    \/ StopCloseWatcher

SpecWatcher == WatchInit /\ [][WatchNext]_vars

-----------------------------------------------------------------------------
(* Package passthrough: Listener.Serve and its workers.                    *)
(*                                                                         *)
(* A worker waits for its peers where handleTLSConn, handleHTTPConn and    *)
(* proxyTCP block: in the first conn.Read, in net.DialTimeout, in the two  *)
(* copies of the splice, and in server.Serve (the TLS handshake and the    *)
(* requests of a terminated connection).  It leaves such a place only when *)
(* its peer has acted.                                                     *)

MaxConns == 3

ConnIds == 1..MaxConns

NoWorker == [pc |-> "none", ready |-> FALSE]

\* the places where a worker waits for a peer
BlockingPlaces == {"read", "dial", "splice", "serve"}

\* NewTLSListener or NewHTTPListener has returned and Serve is called
ServeInit ==
    /\ sv = [pc |-> "accept", waiting |-> 0, accepted |-> 0,
             w |-> [k \in ConnIds |-> NoWorker]]
    /\ tables = <<RouterNew(<<>>)>>
    /\ hrouter = 1
    /\ scheme = "http"
    /\ proxies = [b \in {} |-> NoProxy]
    /\ reqs = <<>>
    /\ upd = [pc |-> "idle"]
    /\ returned = 0
    /\ rt = RouterNew(<<>>)
    /\ call = NoCall
    /\ PackageIdle
    /\ mn = NoMain
    /\ wt = NoWatch

serveUnchanged == <<routerVars, handlerVars, sni, rc, rd, cl, pool, cn, sp, mn, wt>>

\* a client connects: its connection waits in the listener's queue
ClientConnect ==
    /\ sv.pc # "none"
    /\ sv.accepted + sv.waiting < MaxConns
    /\ sv' = [sv EXCEPT !.waiting = @ + 1]
    /\ UNCHANGED serveUnchanged

\* conn, err := l.Accept()
ServeAccept ==
    /\ sv.pc = "accept"
    /\ sv.waiting > 0
    /\ sv' = [sv EXCEPT !.pc = "go", !.waiting = @ - 1, !.accepted = @ + 1]
    /\ UNCHANGED serveUnchanged

\* a Serve that calls handleConn itself: it goes on to the next Accept only
\* when the connections accepted before have been handled to their end
ServeGoInline ==
    /\ sv.pc = "go"
    /\ \A k \in 1..(sv.accepted - 1) : sv.w[k].pc = "done"
    /\ sv' = [sv EXCEPT !.pc = "accept",
                        !.w[sv.accepted] = [pc |-> "read", ready |-> FALSE]]
    /\ UNCHANGED serveUnchanged

\* go l.handleConn(conn): the worker runs up to its first conn.Read, and
\* the loop goes back to Accept
ServeGo ==
    /\ sv.pc = "go"
    /\ sv' = [sv EXCEPT !.pc = "accept",
                        !.w[sv.accepted] = [pc |-> "read", ready |-> FALSE]]
    /\ UNCHANGED serveUnchanged

\* the peer a worker waits for acts: the client sends its first bytes or
\* closes, the backend answers the dial or the dial times out, a side of
\* the splice ends, the terminated connection ends
PeerActs(k) ==
    /\ sv.pc # "none"
    /\ sv.w[k].pc \in BlockingPlaces
    /\ ~sv.w[k].ready
    /\ sv' = [sv EXCEPT !.w[k].ready = TRUE]
    /\ UNCHANGED serveUnchanged

\* the worker goes on from the place where it waited: after the read to the
\* end (read error, no name), to the dial (passthrough) or to server.Serve
\* (terminated); after the dial to the end (dial or write failure) or to the
\* splice; after the splice and after server.Serve to the end
WorkerStep(k) ==
    /\ sv.pc # "none"
    /\ sv.w[k].ready
    /\ \E next \in CASE sv.w[k].pc = "read"   -> {"done", "dial", "serve"}
                     [] sv.w[k].pc = "dial"   -> {"done", "splice"}
                     [] OTHER                 -> {"done"} :
          sv' = [sv EXCEPT !.w[k] = [pc |-> next, ready |-> FALSE]]
    /\ UNCHANGED serveUnchanged

ServeLoop == ServeAccept \/ ServeGo

Worker(k) == PeerActs(k) \/ WorkerStep(k)

ServeNext ==
    \/ ClientConnect
    \/ ServeLoop
    \/ \E k \in ConnIds : Worker(k)

SpecServe == ServeInit /\ [][ServeNext]_vars

\* the accept loop is scheduled, and so are the last connection's peers and
\* worker; the other workers and their peers may stay where they are for
\* ever
SpecServeFair ==
    /\ SpecServe
    /\ WF_vars(ServeAccept)
    /\ WF_vars(ServeGo)
    /\ WF_vars(Worker(MaxConns))

-----------------------------------------------------------------------------
(* The statements about the routing table.                                 *)

\* the routes held by a table
AllRoutes(r) == Range(r.routes) \cup Range(r.wildcards)

\* prefix is a path-boundary prefix of path
PathBoundaryPrefix(prefix, path) ==
    /\ HasPrefix(path, prefix)
    /\ \/ prefix = <<"/">>
       \/ HasSuffix(prefix, <<"/">>)
       \/ Len(path) = Len(prefix)
       \/ (Len(path) > Len(prefix) /\ path[Len(prefix) + 1] = "/")

\* h is label.S for the pattern *.S, the label being everything before the
\* first dot of h
WildcardCompatible(pattern, h) ==
    /\ IsWildcardHost(pattern)
    /\ \E k \in DOMAIN h :
          /\ h[k] = "."
          /\ \A j \in 1..(k - 1) : h[j] # "."
          /\ SubSeq(h, k, Len(h)) = SubSeq(pattern, 2, Len(pattern))

\* as WildcardCompatible, the label being a DNS label: not empty
OneLabelCompatible(pattern, h) ==
    /\ WildcardCompatible(pattern, h)
    /\ h[1] # "."

HostCompatible(routeHost, h) ==
    \/ (~IsWildcardHost(routeHost) /\ routeHost = h)
    \/ WildcardCompatible(routeHost, h)

\* the path Match works on
NormPath(path) == IF path = <<>> THEN <<"/">> ELSE path

\* the routes of the table that satisfy both conditions for (h, p)
Candidates(r, h, p) ==
    {Q \in AllRoutes(r) :
        HostCompatible(Q.Host, h) /\ PathBoundaryPrefix(Q.PathPrefix, p)}

LiteralCandidates(r, h, p) ==
    {Q \in Candidates(r, h, p) : ~IsWildcardHost(Q.Host)}

WildcardCandidates(r, h, p) ==
    {Q \in Candidates(r, h, p) : IsWildcardHost(Q.Host)}

Longest(R, S) == \A Q \in S : Len(Q.PathPrefix) <= Len(R.PathPrefix)

IsMatchCall == call.op = "Match"

\* C1 as stated: a route returned by Match is host-compatible, its prefix is
\* a path-boundary prefix of the path, and no route of the table with a
\* strictly longer prefix satisfies both conditions.
C1_LongestOfAll ==
    IsMatchCall /\ call.res # Nil =>
        LET h == StripPort(call.host)
            p == NormPath(call.path)
        IN  /\ call.res \in Candidates(rt, h, p)
            /\ Longest(call.res, Candidates(rt, h, p))

\* C1 amended: a route returned by Match is host-compatible, its prefix is a
\* path-boundary prefix of the path, and no route of the same host kind
\* (literal-host routes for a literal-host result, wildcard routes for a
\* wildcard result) with a strictly longer prefix satisfies both conditions.
C1_LongestInGroup ==
    IsMatchCall /\ call.res # Nil =>
        LET h == StripPort(call.host)
            p == NormPath(call.path)
        IN  /\ call.res \in Candidates(rt, h, p)
            /\ IF IsWildcardHost(call.res.Host)
                 THEN Longest(call.res, WildcardCandidates(rt, h, p))
                 ELSE Longest(call.res, LiteralCandidates(rt, h, p))

\* the longest of three matching literal-host prefixes is returned
C1_Witness ==
    /\ IsMatchCall
    /\ call.res # Nil
    /\ call.res.PathPrefix = pAB
    /\ Cardinality(LiteralCandidates(rt, StripPort(call.host), NormPath(call.path))) = 3

\* C2: when a literal-host route matches, Match returns the literal-host
\* route with the longest matching prefix; a wildcard route is returned only
\* when no literal-host route matches, and it is then the wildcard route
\* with the longest matching prefix.
C2_ExactBeforeWildcard ==
    IsMatchCall =>
        LET h    == StripPort(call.host)
            p    == NormPath(call.path)
            lits == LiteralCandidates(rt, h, p)
            wild == WildcardCandidates(rt, h, p)
        IN  /\ lits # {} => call.res \in lits /\ Longest(call.res, lits)
            /\ lits = {} /\ wild # {} => call.res \in wild /\ Longest(call.res, wild)
            /\ call.res # Nil /\ IsWildcardHost(call.res.Host) => lits = {}

\* a literal-host route is returned although a wildcard route matches with a
\* longer prefix
C2_Witness ==
    /\ IsMatchCall
    /\ call.res # Nil
    /\ ~IsWildcardHost(call.res.Host)
    /\ \E Q \in WildcardCandidates(rt, StripPort(call.host), NormPath(call.path)) :
          Len(Q.PathPrefix) > Len(call.res.PathPrefix)

\* C3: matchesPathPrefix(path, prefix) is true exactly when path begins with
\* prefix and prefix is "/", or ends with "/", or is as long as path, or is
\* followed in path by "/"; /a matches /a, /a/ and /a/x but not /ax, and /a/
\* does not match /a.
C3_PathBoundary ==
    call.op = "matchesPathPrefix" =>
        /\ call.res <=> PathBoundaryPrefix(call.prefix, call.path)
        /\ call.prefix = pA /\ call.path \in {pA, pASl, pASlX} => call.res
        /\ call.prefix = pA /\ call.path = pAX => ~call.res
        /\ call.prefix = pASl /\ call.path = pA => ~call.res

\* the prefix test refuses /ax for the prefix /a
C3_Witness ==
    /\ call.op = "matchesPathPrefix"
    /\ call.prefix = pA
    /\ call.path = pAX
    /\ call.res = FALSE

\* C4: when no literal-host route matches, a wildcard route *.S whose prefix
\* matches the path is returned if and only if the host is one non-empty
\* label with no dot followed by .S.
C4_OneLabelWildcard ==
    IsMatchCall =>
        LET h == StripPort(call.host)
            p == NormPath(call.path)
            strict == {Q \in WildcardCandidates(rt, h, p) : OneLabelCompatible(Q.Host, h)}
        IN  LiteralCandidates(rt, h, p) = {} =>
                ((call.res # Nil /\ IsWildcardHost(call.res.Host)) <=> strict # {})

\* C5: Redirect(h) is non-null if and only if the port-stripped h is in the
\* RedirectFrom of some route of the table, and the route returned is a
\* route of the table whose RedirectFrom contains it.
C5_RedirectIffSource ==
    call.op = "Redirect" =>
        LET h == StripPort(call.host)
        IN  /\ call.res # Nil <=> \E Q \in AllRoutes(rt) : h \in Range(Q.RedirectFrom)
            /\ call.res # Nil =>
                  call.res \in AllRoutes(rt) /\ h \in Range(call.res.RedirectFrom)

\* a host given with a port is redirected to a wildcard route that names it
C5_Witness ==
    /\ call.op = "Redirect"
    /\ call.host = hBTport
    /\ call.res # Nil
    /\ IsWildcardHost(call.res.Host)

-----------------------------------------------------------------------------
(* The statements about the handler.                                       *)

Started(i)   == reqs[i].pc # "idle"
Done(i)      == reqs[i].pc = "done"
Forwarded(i) == Done(i) /\ reqs[i].resp.code = 200

\* the table a request loaded
TableOf(i) == tables[reqs[i].rtr]

IsRedirectSource(r, h) == \E Q \in AllRoutes(r) : h \in Range(Q.RedirectFrom)

Location(sch, host, path, rawQuery) ==
    <<sch, "://">> \o host \o path
        \o (IF rawQuery # <<>> THEN <<"?">> \o rawQuery ELSE <<>>)

\* C6: a request whose port-stripped Host is a redirect source of the table
\* it loaded is answered 301 with Location scheme://target host + path, then
\* ?query when the query is not empty; no route is matched for it and no
\* upstream is contacted.
C6_RedirectFirst ==
    \A i \in ReqIds :
        Started(i) /\ IsRedirectSource(TableOf(i), StripPort(reqs[i].host)) =>
            /\ Done(i)
            /\ reqs[i].resp.code = 301
            /\ \E Q \in AllRoutes(TableOf(i)) :
                  /\ StripPort(reqs[i].host) \in Range(Q.RedirectFrom)
                  /\ reqs[i].resp.location =
                        Location(scheme, Q.Host, reqs[i].in.Path, reqs[i].query)
            /\ ~reqs[i].matched
            /\ reqs[i].proxy = NoProxy
            /\ reqs[i].out = NoOut

\* a request with a query is redirected although a route matches its host
C6_Witness ==
    \E i \in ReqIds :
        /\ Done(i)
        /\ reqs[i].resp.code = 301
        /\ reqs[i].query # <<>>
        /\ Match(TableOf(i), reqs[i].host, reqs[i].path) # Nil

StripApplies(R) == R.StripPrefix /\ R.PathPrefix # <<"/">>

C8_RawPathRewritten ==
    \A i \in ReqIds :
        Forwarded(i) /\ StripApplies(reqs[i].route) /\ reqs[i].in.RawPath # <<>> =>
            /\ reqs[i].url.RawPath =
                  TrimPrefix(reqs[i].in.RawPath, reqs[i].route.PathPrefix)
            /\ Unescape(reqs[i].url.RawPath) = reqs[i].url.Path

\* C9: the Host sent upstream for a request matched to R is the inbound Host
\* when R.PassHostHeader is set and R.ServiceName:R.ServicePort otherwise.
C9_HostHeaderPerRoute ==
    \A i \in ReqIds :
        Forwarded(i) =>
            reqs[i].out.HostHeader =
                IF reqs[i].route.PassHostHeader
                  THEN reqs[i].host
                  ELSE ServiceAddr(reqs[i].route)

\* what a table prescribes for a finished request
AnsweredBy(i, r) ==
    LET q == reqs[i]
    IN  /\ q.resp.code = 301 <=> Redirect(r, q.host) # Nil
        /\ q.resp.code = 404 <=>
              (Redirect(r, q.host) = Nil /\ Match(r, q.host, q.path) = Nil)
        /\ q.resp.code = 200 =>
              /\ Match(r, q.host, q.path) # Nil
              /\ q.out.URLHost = ServiceAddr(Match(r, q.host, q.path))

C10_State ==
    \A i \in ReqIds :
        /\ Started(i) => reqs[i].rtr >= reqs[i].startRet + 1
        /\ Done(i) => AnsweredBy(i, TableOf(i))

\* C10: a request that starts after UpdateRouter(T2) has returned loads T2
\* (never a table older than the last UpdateRouter that returned) and is
\* answered as T2 prescribes; a request is answered as the table it loaded
\* prescribes whatever is stored meanwhile, and no step of UpdateRouter
\* changes a request.
C10_HotReload ==
    /\ []C10_State
    /\ [][upd' # upd => reqs' = reqs]_vars

\* after the reload a host of the old table gets 404, while a request that
\* loaded the old table before the swap was forwarded after it
C10_Witness ==
    \E i, j \in ReqIds :
        /\ Done(i) /\ reqs[i].startRet = 1 /\ reqs[i].resp.code = 404
        /\ Match(tables[1], reqs[i].host, reqs[i].path) # Nil
        /\ Done(j) /\ reqs[j].rtr = 1 /\ reqs[j].endRouter = 2
        /\ reqs[j].resp.code = 200

\* the answer ServeHTTP gives when both lookups are made on the router r
SnapshotAnswer(i, r) ==
    LET q == reqs[i]
        t == Redirect(r, q.host)
    IN  IF t # Nil
          THEN /\ q.resp.code = 301
               /\ q.resp.location = Location(scheme, t.Host, q.in.Path, q.query)
        ELSE IF Match(r, q.host, q.path) = Nil
          THEN q.resp.code = 404
        ELSE /\ q.resp.code = 200
             /\ q.route = Match(r, q.host, q.path)

C11_State ==
    \A i \in ReqIds : Done(i) => SnapshotAnswer(i, tables[reqs[i].rtr])

\* C11: a finished ServeHTTP call made its redirect lookup and its match on
\* one router, the one it loaded, and a router that has been built keeps its
\* routes, wildcards and redirects for ever: a reload adds a router and
\* moves the pointer, whatever the requests in flight are doing.
C11_SnapshotConsistency ==
    /\ []C11_State
    /\ [][/\ Len(tables') >= Len(tables)
          /\ \A k \in 1..Len(tables) : tables'[k] = tables[k]]_vars

\* a request that loaded the first router finished, forwarded, after a
\* different table was published, and a later request got the new table's 404
C11_Witness ==
    \E i, j \in ReqIds :
        /\ Done(i) /\ reqs[i].rtr = 1 /\ reqs[i].endRouter = 2
        /\ reqs[i].resp.code = 200
        /\ tables[2] # tables[1]
        /\ Done(j) /\ reqs[j].rtr = 2 /\ reqs[j].resp.code = 404
        /\ SnapshotAnswer(j, tables[2]) /\ ~SnapshotAnswer(j, tables[1])

-----------------------------------------------------------------------------
(* Claims about the passthrough lookups.                                   *)

IsPassthroughPortCall == call.op = "GetPassthroughPort"

\* the passthrough routes of the table whose Host is h
PassthroughWithHost(r, h) ==
    {Q \in AllRoutes(r) : Q.Passthrough /\ Q.Host = h}

\* the wildcard pattern for a host: "*" and the host from its first dot on
WildcardPatterns(h) ==
    {<<"*">> \o SubSeq(h, k, Len(h)) :
        k \in {k \in DOMAIN h : h[k] = "." /\ \A m \in 1..(k - 1) : h[m] # "."}}

\* C17: GetPassthroughPort returns only a passthrough route whose Host is the
\* port-stripped host or its wildcard pattern, whatever the path prefixes
\* are; a literal-host passthrough route is preferred to a wildcard one; the
\* port is HTTPPort when forHTTP and HTTPPort > 0, ServicePort otherwise;
\* (nil, 0) when no passthrough route is eligible.
C17_PassthroughPort ==
    IsPassthroughPortCall =>
        LET h    == StripPort(call.host)
            lit  == PassthroughWithHost(rt, h)
            wild == UNION {PassthroughWithHost(rt, w) : w \in WildcardPatterns(h)}
            res  == call.res
        IN  /\ lit # {} => res.route \in lit
            /\ lit = {} /\ wild # {} => res.route \in wild
            /\ lit = {} /\ wild = {} => res.route = Nil /\ res.port = 0
            /\ res.route # Nil =>
                  res.port = IF call.forHTTP /\ res.route.HTTPPort > 0
                               THEN res.route.HTTPPort
                               ELSE res.route.ServicePort

\* a host with a port whose table has, for its host, a route that is not
\* passthrough, a literal passthrough route under a longer prefix and a
\* wildcard passthrough route: the literal one is returned with its HTTP port
C17_Witness ==
    /\ IsPassthroughPortCall
    /\ call.host = hATport /\ call.forHTTP
    /\ \E Q \in AllRoutes(rt) : Q.Host = hAT /\ ~Q.Passthrough
    /\ PassthroughWithHost(rt, hStarT) # {}
    /\ call.res.route # Nil
    /\ call.res.route.Host = hAT /\ call.res.route.PathPrefix = pA
    /\ call.res.port = 8080

-----------------------------------------------------------------------------
(* Claims about extractSNI.                                                *)

IsSNICall == sni.op = "extractSNI"

\* the data is a ClientHello with a server name, cut before the name's end
CutBeforeNameEnd(data) ==
    \E H \in ClientHellos :
        /\ H.nameEnd > 0
        /\ Len(data) < H.nameEnd
        /\ data = SubSeq(H.bytes, 1, Len(data))

\* C20: extractSNI never reads a byte outside its input, whatever the
\* input's length and declared lengths are: it returns a name or an error;
\* a ClientHello cut before the end of its server name gives an error, and
\* a whole one gives its name.
C20_ExtractSNISafe ==
    IsSNICall =>
        /\ ~sni.res.panic
        /\ sni.res.err # "" => sni.res.name = <<>>
        /\ CutBeforeNameEnd(sni.data) => sni.res.err # ""
        /\ \A H \in ClientHellos :
              sni.data = H.bytes =>
                  IF H.nameEnd > 0
                    THEN sni.res.err = "" /\ sni.res.name = H.name
                    ELSE sni.res.err = "no SNI"

\* a ClientHello cut inside the server name, after the name's length, was
\* refused; so was one whose name length was overwritten with 255
C20_Witness ==
    /\ IsSNICall
    /\ sni.res.err = "no SNI"
    /\ \E H \in ClientHellos :
          /\ H.nameEnd > 0 /\ Len(H.name) = MaxNameLen
          /\ \/ /\ Len(sni.data) = H.nameEnd - 1
                /\ sni.data = SubSeq(H.bytes, 1, Len(sni.data))
             \/ /\ Len(sni.data) = Len(H.bytes)
                /\ sni.data[H.nameEnd - Len(H.name) - 1] = 255
                /\ \A k \in DOMAIN H.bytes :
                      k # H.nameEnd - Len(H.name) - 1 => sni.data[k] = H.bytes[k]

-----------------------------------------------------------------------------
(* Claims about replayConn.                                                *)

\* the bytes the socket still holds
SockRest == SubSeq(rc.sock, rc.pos + 1, Len(rc.sock))

\* C14: what the Read calls have returned so far, then what is left of the
\* peeked bytes, then what is left in the socket, is the client's stream:
\* the reads return the peeked bytes and then the socket's bytes, none lost,
\* doubled or out of order, whatever the sizes of the buffers read into;
\* nothing is read from the socket while peeked bytes are left.
C14_ReplayStream ==
    /\ rd.got \o rc.buf \o SockRest
          = Stream(1, Len(rd.got) + Len(rc.buf) + Len(SockRest))
    /\ Len(rc.buf) > 0 => rc.pos = 0

\* the longest peek was returned by the Read calls, then the socket was
\* read to its end
C14_Witness ==
    /\ rd.pc = "idle"
    /\ rc.buf = <<>>
    /\ rc.pos = MaxSock
    /\ rd.got = Stream(1, MaxPeek + MaxSock)

\* C15: the peek buffer goes back to the pool once and no more: not before
\* a Read has exhausted it or Close has been called, and it is back when a
\* Read that exhausted it or a Close has returned.
C15_ReleasedOnce ==
    /\ pool.peekPuts <= 1
    /\ (rd.pc = "idle" /\ rc.buf = <<>>) \/ (cl.pc = "idle" /\ cl.calls > 0)
          => pool.peekPuts = 1

-----------------------------------------------------------------------------
(* Claims about the connection handler and proxyTCP.                       *)

\* the connection is over: the handler has returned on a path that closes
\* it, or the server has closed the terminated connection
ConnFinished ==
    \/ cn.pc = "returned"
    \/ cn.pc = "serve" /\ rc.closed /\ rd.pc = "idle" /\ cl.pc = "idle"

\* C16: on every path of a connection the peek buffer taken for it is put
\* back once, and each copy buffer taken by a direction of the splice is
\* put back once: never more Puts than Gets, and when the connection is
\* over as many Puts as Gets, one for the peek pool, two for the copy pool
\* after a splice and none otherwise.
C16_PoolAccounting ==
    /\ pool.peekPuts <= pool.peekGets /\ pool.peekGets <= 1
    /\ pool.copyPuts <= pool.copyGets /\ pool.copyGets <= 2
    /\ \A d \in {"c2b", "b2c"} :
          sp.dir[d].pc = "done" => pool.copyPuts >= 1
    /\ ConnFinished =>
          /\ pool.peekGets = 1 /\ pool.peekPuts = 1
          /\ pool.copyPuts = pool.copyGets
          /\ pool.copyGets = IF cn.path = "splice" THEN 2 ELSE 0

\* a splice in which one direction ended on an error and the other on the
\* end of file has returned
C16_Witness ==
    /\ cn.pc = "returned" /\ cn.path = "splice"
    /\ sp.dir.c2b.failed /\ ~sp.dir.b2c.failed
    /\ pool = [peekGets |-> 1, peekPuts |-> 1, copyGets |-> 2, copyPuts |-> 2]

\* the bytes of the client that the proxy holds or has still to read
ClientTotal == cn.n + sp.peer.client.sent

\* C18 (safety): what the upstream has received is at every moment the
\* beginning of the client's stream, the peeked bytes and then the bytes
\* sent after them, in order, none missing and none twice; the first
\* direction does not start before the peeked bytes are written; and when
\* the client direction has ended on the end of file, all is delivered.
C18_State ==
    LET up == sp.peer.backend.recv
    IN  /\ up = Stream(1, Len(up))
        /\ Len(up) <= ClientTotal
        /\ sp.dir.c2b.pc # "none" => Len(up) >= cn.n
        /\ cn.path = "splice" /\ Len(up) + Len(sp.dir.c2b.held) > cn.n
              => sp.peer.client.read >= 1
        /\ sp.dir.c2b.pc \in {"ended", "done"} /\ ~sp.dir.c2b.failed
              => Len(up) = ClientTotal
        /\ sp.peer.client.recv = Stream(101, 100 + Len(sp.peer.client.recv))

C19_State ==
    cn.path = "splice" =>
        /\ \A d \in {"c2b", "b2c"} :
              sp.peer[Dst(d)].wr = "shut" <=> sp.dir[d].pc = "done"
        /\ sp.peer.client.closed \/ sp.peer.backend.closed =>
              /\ sp.dir.c2b.pc = "done" /\ sp.dir.b2c.pc = "done"
              /\ sp.peer.client.closed /\ sp.peer.backend.closed

\* a peer has stopped sending: it has sent FIN or reset the connection
Stopped(peer) == sp.peer[peer].fin \/ sp.peer[peer].err

-----------------------------------------------------------------------------
(* The statements about reloads.                                           *)

\* a service the manifest may hold: no proxy labels at all, or a host and
\* a port that is a number
ServiceValid(service) ==
    LET host == Label(service, "liteproxy.host")
        port == Label(service, "liteproxy.port")
    IN  \/ host = <<>> /\ port = <<>>
        \/ /\ host # <<>>
           /\ port # <<>>
           /\ \A i \in DOMAIN port : port[i] \in Range(Digits)

FileValid(file) == \A service \in file : ServiceValid(service)

\* the services of a table: the names its routes forward to
TableServices(r) ==
    {r.routes[i].ServiceName : i \in DOMAIN r.routes}
      \cup {r.wildcards[i].ServiceName : i \in DOMAIN r.wildcards}

\* the services of a manifest that ask for a route
Labelled(file) ==
    {service.Name : service \in {s \in file : Label(s, "liteproxy.host") # <<>>}}

\* every table published holds the routes of all the labelled services of
\* one manifest whose services are all valid
C12_State ==
    mn.pc # "none" =>
        \A k \in DOMAIN tables :
            \E file \in ReloadFiles :
                FileValid(file) /\ TableServices(tables[k]) = Labelled(file)

\* a reload whose manifest holds an invalid service ends at once and leaves
\* the tables, the handler's router, the proxy cache, the listeners'
\* routers and the certificate hosts as they were
C12_Step ==
    (mn'.attempts # mn.attempts /\ ~FileValid(mn'.file)) =>
        /\ tables' = tables
        /\ hrouter' = hrouter
        /\ proxies' = proxies
        /\ mn'.httpListener = mn.httpListener
        /\ mn'.httpsListener = mn.httpsListener
        /\ mn'.certHosts = mn.certHosts
        /\ mn'.pc = "idle"
        /\ mn'.failed

\* C12: a reload whose parse fails, be it for one service only, changes
\* neither the handler's table, nor its proxy cache, nor a listener's
\* table, nor the certificate hosts, and no table is ever published from a
\* part of a manifest's routes.
C12_FailedReloadKeepsAll == []C12_State /\ [][C12_Step]_vars

\* a reload of the manifest with one invalid service among valid ones has
\* failed after a reload that succeeded, with a proxy in the cache, both
\* listeners in place and certificate hosts to keep
C12_Witness ==
    /\ mn.pc = "idle"
    /\ mn.failed
    /\ mn.file = Files.oneBad
    /\ mn.done >= 1
    /\ proxies # EmptyMap
    /\ mn.httpListener = hrouter
    /\ mn.httpsListener = hrouter
    /\ mn.certHosts # {}

\* C13: a connection accepted after a completed reload, while no reload is
\* in progress, whose SNI or Host has a passthrough route in the table
\* published, is dispatched to the raw TCP forwarder, whatever the table
\* loaded at the start held.
C13_PassthroughFollowsReload ==
    (/\ mn.pc # "none"
     /\ mn.conn.port # "none"
     /\ mn.conn.settled
     /\ mn.conn.reloads >= 1
     /\ GetPassthrough(tables[mn.conn.current], mn.conn.name) # Nil)
        => mn.conn.dispatch = "passthrough"

-----------------------------------------------------------------------------
(* The statements about extractSNI on the records clients build.           *)

IsHelloCall == sni.op = "extractSNI" /\ "hello" \in DOMAIN sni

\* the record is a ClientHello whose server_name list begins with a host
\* name
HostNameFirst(h) ==
    h.recType = 22 /\ h.hsType = 1 /\ h.sni /\ h.entries[1].type = 0

\* C21: extractSNI returns the name of the first entry of the server_name
\* list when that entry is a host name, whatever the lengths of the session
\* id, the cipher suites and the compression methods, whatever extensions
\* stand before or after and whatever entry follows the first; it returns
\* an error when the record is not a handshake record, the message is not
\* a ClientHello, there is no server_name extension, or the first entry is
\* not a host name.
C21_SNIRoundTrip ==
    IsHelloCall =>
        IF HostNameFirst(sni.hello)
          THEN sni.res = SNIResult(sni.hello.entries[1].name, "", FALSE)
          ELSE sni.res.err # "" /\ sni.res.name = <<>> /\ ~sni.res.panic

\* a name of the longest length was returned from a list of two entries,
\* behind a session id of two bytes, two cipher suites, two compression
\* methods and two extensions, with one extension behind
C21_Witness ==
    /\ IsHelloCall
    /\ HostNameFirst(sni.hello)
    /\ Len(sni.hello.entries) = 2
    /\ Len(sni.hello.entries[1].name) = MaxNameLen
    /\ Len(sni.hello.sid) = 2 /\ Len(sni.hello.ciphers) = 4
    /\ Len(sni.hello.comp) = 2 /\ Len(sni.hello.before) = 9
    /\ sni.hello.after # <<>>
    /\ sni.res.name = sni.hello.entries[1].name

-----------------------------------------------------------------------------
(* The statements about the WebSocket headers.                             *)

IsNormalizeCall == call.op = "normalizeWebSocketHeaders"

\* the five keys that are renamed, and the key each is renamed to
OldKeys == {WSKey("Websocket", l) : l \in {"Key", "Version", "Protocol", "Extensions", "Accept"}}

NewKey(k) == WSKey("WebSocket", k[5])

\* C22: after normalizeWebSocketHeaders no Sec-Websocket-* key of the five
\* remains; each one that was present has its Sec-WebSocket-* key in the
\* map with the same values in the same order and number; every header
\* that is neither one of the five nor the new key of one that was present
\* is as before; a second application changes nothing.
C22_WebSocketHeaders ==
    IsNormalizeCall =>
        /\ (DOMAIN call.res) \cap OldKeys = {}
        /\ \A k \in OldKeys \cap DOMAIN call.h :
              NewKey(k) \in DOMAIN call.res /\ call.res[NewKey(k)] = call.h[k]
        /\ \A k \in (HeaderKeys \cup {NewKey(o) : o \in OldKeys})
                     \ (OldKeys \cup {NewKey(o) : o \in OldKeys \cap DOMAIN call.h}) :
              /\ k \in DOMAIN call.res <=> k \in DOMAIN call.h
              /\ k \in DOMAIN call.h => call.res[k] = call.h[k]
        /\ call.again = call.res

\* all five keys were present, one of them with three values of which two
\* are equal, with another header beside them
C22_Witness ==
    /\ IsNormalizeCall
    /\ OldKeys \subseteq DOMAIN call.h
    /\ <<"Upgrade">> \in DOMAIN call.h
    /\ call.h[WSKey("Websocket", "Protocol")] = <<"b", "a", "b">>
    /\ call.res[WSKey("WebSocket", "Protocol")] = <<"b", "a", "b">>
    /\ call.res[<<"Upgrade">>] = call.h[<<"Upgrade">>]

-----------------------------------------------------------------------------
(* The statements about Hosts and the redirect map.                        *)

\* the names a table serves: hosts, wildcard patterns, redirect sources
ServedNames(r) ==
    {Q.Host : Q \in AllRoutes(r)} \cup UNION {Range(Q.RedirectFrom) : Q \in AllRoutes(r)}

\* C23: Hosts returns a strictly ascending list whose elements are exactly
\* the literal hosts, the wildcard patterns as they are and the redirect
\* sources of the table, each once.
C23_HostsSortedUnique ==
    call.op = "Hosts" =>
        /\ Range(call.res) = ServedNames(rt)
        /\ \A i, j \in DOMAIN call.res :
              i < j => StringLess(call.res[i], call.res[j])

\* Hosts was called on a table with a literal host, a wildcard pattern and
\* a redirect source that two routes name
C23_Witness ==
    /\ call.op = "Hosts"
    /\ call.res = <<hStarT, hAT, hBT, hWT>>
    /\ Cardinality({Q \in AllRoutes(rt) : hWT \in Range(Q.RedirectFrom)}) = 2

\* the place in the input of the last route that names d as a redirect
\* source
LastNaming(routes, d) ==
    CHOOSE i \in DOMAIN routes :
        /\ d \in Range(routes[i].RedirectFrom)
        /\ \A j \in DOMAIN routes : d \in Range(routes[j].RedirectFrom) => j <= i

\* C24: after Update(routes), Redirect of a name that several routes give
\* as a redirect source returns the one of them that is last in routes,
\* whatever their prefix lengths and whether their hosts are literal or
\* wildcard.
C24_RedirectLastInInput ==
    call.op = "Update" =>
        \A d \in UNION {Range(call.routes[i].RedirectFrom) : i \in DOMAIN call.routes} :
            Redirect(rt, d) = call.routes[LastNaming(call.routes, d)]

-----------------------------------------------------------------------------
(* The statement about the port of a host.                                 *)

IsDigit(c) == c \in {"0", "1", "2", "3", "4", "5", "6", "7", "8", "9"}

\* the host without a trailing ":<digits>", and unchanged if it has none
WithoutPort(host) ==
    LET idx == LastIndex(host, ":")
    IN  IF /\ idx # -1
           /\ idx + 1 < Len(host)
           /\ \A i \in (idx + 2)..Len(host) : IsDigit(host[i])
          THEN SliceTo(host, idx)
          ELSE host

\* C25: Match compares the host without a trailing ":<digits>", and a host
\* that does not end in ":<digits>" as it is: the route returned has the
\* host, or the wildcard pattern of the host, so normalised.
C25_StripsOnlyPort ==
    (call.op = "Match" /\ call.res # Nil) =>
        call.res.Host \in {WithoutPort(call.host), WildcardHost(WithoutPort(call.host))}

-----------------------------------------------------------------------------
(* The statement about the certificate hosts after a reload.               *)

\* C26: with HTTPS on, after a reload has succeeded the certificate source
\* the TLS listener consults for a handshake allows exactly the names of
\* Hosts of the table published.
C26_CertHostsFollowReload ==
    (mn.pc = "idle" /\ mn.started /\ mn.https /\ mn.done >= 1) =>
        mn.tlsConfig = Range(Hosts(tables[hrouter]))

-----------------------------------------------------------------------------
(* The statement about the error paths of a connection.                    *)

ErrorPaths == {"read error", "no name", "dial failure", "write failure"}

\* C27: until the two copies are started the client is sent nothing, and a
\* connection whose first read fails or returns nothing, whose name cannot
\* be extracted, whose backend cannot be dialled or whose peeked bytes
\* cannot be written to the backend is closed having been sent nothing,
\* after at most one dial and with no copy started.
C27_SilentOnError ==
    /\ cn.pc \in {"accepted", "read", "peeked", "dial", "write"} =>
          sp.peer.client.recv = <<>>
    /\ cn.path \in ErrorPaths =>
          /\ sp.peer.client.recv = <<>>
          /\ sp.peer.client.closed
          /\ cn.pc \in {"put", "returned"}
          /\ cn.dials <= 1
          /\ cn.path \in {"read error", "no name"} => cn.dials = 0
          /\ sp.dir.c2b.pc = "none" /\ sp.dir.b2c.pc = "none"
          /\ sp.peer.backend.recv = <<>>

\* the write of the peeked bytes to the backend has failed after a dial
\* that succeeded, and the handler has returned
C27_Witness ==
    /\ cn.path = "write failure"
    /\ cn.pc = "returned"
    /\ cn.n = MaxPeek
    /\ cn.dials = 1
    /\ sp.peer.client.closed /\ sp.peer.backend.closed

-----------------------------------------------------------------------------
(* Claims about the watcher.                                               *)

\* the times of the last event of each burst: an event ends a burst when
\* the next one comes Debounce or more after it, or when it is the last
BurstEnds(evs) ==
    LET idx == {i \in 1..Len(evs) :
                   i = Len(evs) \/ evs[i + 1] - evs[i] >= Debounce}
    IN  [k \in 1..Cardinality(idx) |->
            evs[CHOOSE i \in idx : Cardinality({j \in idx : j <= i}) = k]]

\* no event comes at the very tick at which the timer of the one before it
\* expires
WellSeparated(evs) ==
    \A i \in 1..(Len(evs) - 1) : evs[i + 1] - evs[i] # Debounce

\* the bursts that have been followed by Debounce without an event
QuietBursts == {k \in DOMAIN BurstEnds(wt.evs) :
                   BurstEnds(wt.evs)[k] + Debounce <= wt.now}

C29_NoCallAfterStop ==
    wt.pc # "none" => ~wt.late

-----------------------------------------------------------------------------
(* Claims about the order of the table.                                    *)

\* the sequence is sorted by the length of PathPrefix, longest first
SortedByPathLen(s) ==
    \A i, j \in DOMAIN s :
        i < j => Len(s[i].PathPrefix) >= Len(s[j].PathPrefix)

\* the place of a route in a sequence that holds it once
PlaceIn(s, r) == CHOOSE i \in DOMAIN s : s[i] = r

\* routes of equal prefix length are in the sequence in their input order
KeepsInputOrder(s, input) ==
    \A i, j \in DOMAIN s :
        (i < j /\ Len(s[i].PathPrefix) = Len(s[j].PathPrefix)) =>
            PlaceIn(input, s[i]) < PlaceIn(input, s[j])

\* C30: after New and Update the literal-host sequence and the wildcard
\* sequence are each sorted by prefix length, longest first; every input
\* route is in exactly one of the two, the wildcard one if and only if its
\* Host begins with "*."; routes of equal prefix length keep their input
\* order, and Match returns, among the routes with its result's host and
\* prefix, the one that came first in the input.
C30_SortedPartitionedStable ==
    call.op = "Update" =>
        LET input == call.routes
        IN  /\ SortedByPathLen(rt.routes) /\ SortedByPathLen(rt.wildcards)
            /\ Len(rt.routes) + Len(rt.wildcards) = Len(input)
            /\ \A i \in DOMAIN input :
                  IF IsWildcardHost(input[i].Host)
                    THEN /\ input[i] \in Range(rt.wildcards)
                         /\ input[i] \notin Range(rt.routes)
                    ELSE /\ input[i] \in Range(rt.routes)
                         /\ input[i] \notin Range(rt.wildcards)
            /\ KeepsInputOrder(rt.routes, input)
            /\ KeepsInputOrder(rt.wildcards, input)
            /\ \A host \in ReqHosts, path \in ReqPaths :
                  LET res == Match(rt, host, path)
                  IN  res # Nil =>
                         \A i \in DOMAIN input :
                            (input[i].Host = res.Host
                               /\ input[i].PathPrefix = res.PathPrefix) =>
                                PlaceIn(input, res) <= i

-----------------------------------------------------------------------------
(* Claims about the proxy cache.                                           *)

\* request i ran, from its start to its end, after the reload that
\* published its router had returned and before the next one began
Undisturbed(i) ==
    /\ Forwarded(i)
    /\ reqs[i].startRet = reqs[i].rtr - 1
    /\ reqs[i].endRouter = reqs[i].rtr

\* the proxy a route is built into
ProxyOf(route) == buildProxy(TargetURL(route), route.PassHostHeader)

\* C31 (state): two requests for the same key that ran with no reload in
\* between were forwarded through the same proxy, and while no reload has
\* begun a proxy in use is the one cached under its key.
C31_State ==
    /\ \A i, j \in ReqIds :
          (Undisturbed(i) /\ Undisturbed(j) /\ reqs[i].rtr = reqs[j].rtr
             /\ ProxyKey(reqs[i].route) = ProxyKey(reqs[j].route)) =>
                reqs[i].proxy = reqs[j].proxy
    /\ \A i \in ReqIds :
          (Undisturbed(i) /\ hrouter = reqs[i].rtr /\ upd.pc = "idle") =>
              /\ ProxyKey(reqs[i].route) \in DOMAIN proxies
              /\ proxies[ProxyKey(reqs[i].route)] = reqs[i].proxy

\* C31 (step): a getProxy call leaves every cached entry as it is: it adds
\* an entry only for a key that has none, and returns the entry it finds
C31_Step ==
    \A i \in ReqIds :
        (reqs[i].pc \in {"getProxy", "lock"} /\ reqs'[i].pc = "done") =>
            /\ \A k \in DOMAIN proxies :
                  k \in DOMAIN proxies' /\ proxies'[k] = proxies[k]
            /\ ProxyKey(reqs[i].route) \in DOMAIN proxies =>
                  /\ proxies' = proxies
                  /\ reqs'[i].proxy = proxies[ProxyKey(reqs[i].route)]
            /\ ProxyKey(reqs[i].route) \notin DOMAIN proxies =>
                  /\ DOMAIN proxies' = DOMAIN proxies \cup {ProxyKey(reqs[i].route)}
                  /\ proxies'[ProxyKey(reqs[i].route)] = reqs'[i].proxy

\* C31: requests that miss the cache for the same key at the same time,
\* with no reload in between, leave one proxy stored for the key and are
\* all forwarded through it; getProxy never overwrites a cached entry.
C31_OneProxyPerKey == []C31_State /\ [][C31_Step]_vars

\* two requests for web:80, by routes that differ in PassHostHeader, both
\* missed the cache under the read lock and were forwarded through the
\* same proxy
C31_Witness ==
    /\ \A i \in {1, 2} : Undisturbed(i) /\ reqs[i].missed
    /\ ProxyKey(reqs[1].route) = ProxyKey(reqs[2].route)
    /\ reqs[1].route.PassHostHeader # reqs[2].route.PassHostHeader
    /\ reqs[1].proxy = reqs[2].proxy

\* C32: once UpdateRouter has returned and every request that started
\* before it has completed, every proxy in the cache is the proxy of a
\* route of the current table.
C32_NoStaleProxy ==
    (/\ upd.pc = "idle"
     /\ returned >= 1
     /\ \A i \in ReqIds :
           (Started(i) /\ reqs[i].startRet < returned) => Done(i)) =>
        \A k \in DOMAIN proxies :
            \E route \in AllRoutes(tables[hrouter]) :
                proxies[k] = ProxyOf(route)

-----------------------------------------------------------------------------
(* Claims about the reload and the listeners.                              *)

\* C33: reloads run one at a time, and when the reloads triggered so far
\* have completed the handler and every listener that exists refer to the
\* table built by the last of them; a connection accepted after a reload
\* has returned is looked up in that table.
C33_ReloadConvergence ==
    /\ (mn.pc = "idle" /\ mn.started /\ mn.done >= 1) =>
          /\ hrouter = mn.new
          /\ mn.httpListener \in {0, hrouter}
          /\ mn.httpsListener \in {0, hrouter}
    /\ (mn.pc # "none" /\ mn.conn.port # "none" /\ mn.conn.settled
          /\ mn.conn.reloads >= 1) =>
          LET l == IF mn.conn.port = "http" THEN mn.httpListener
                   ELSE mn.httpsListener
          IN  l # 0 => mn.conn.table = mn.conn.current

-----------------------------------------------------------------------------
(* Claims about the accept loop.                                           *)

\* C34: a connection that waits to be accepted is accepted and given a
\* worker, and the last connection is served to its end, although the
\* workers of the connections before it may stay for ever in their first
\* read, their dial, their splice or their TLS handshake: the accept loop
\* waits for no worker.
C34_AcceptNeverWaits ==
    /\ \A k \in ConnIds :
          (sv.pc # "none" /\ sv.accepted + sv.waiting >= k)
              ~> (sv.w[k].pc # "none")
    /\ (sv.pc # "none" /\ sv.accepted + sv.waiting = MaxConns)
          ~> (sv.w[MaxConns].pc = "done")

\* the last connection has been accepted and served to its end while the
\* first worker is still in its first read and the second in its dial
C34_Witness ==
    /\ sv.pc = "accept"
    /\ sv.w[1].pc = "read" /\ ~sv.w[1].ready
    /\ sv.w[2].pc = "dial" /\ ~sv.w[2].ready
    /\ sv.w[MaxConns].pc = "done"

-----------------------------------------------------------------------------
(* Claims about the passthrough routes and the handler.                    *)

\* C35: a request that the handler forwards through a reverse proxy is
\* never forwarded to a route whose Passthrough flag is set.
C35_NoProxyToPassthrough ==
    (mn.pc # "none" /\ mn.conn.port # "none" /\ mn.conn.code = 200) =>
        ~mn.conn.route.Passthrough

\* C36: when the table has a literal-host route for the host that is not
\* passthrough, and no literal-host passthrough route for it, the
\* passthrough lookups return nil, whatever the wildcard routes are.
C36_LiteralHidesWildcard ==
    call.op \in {"GetPassthrough", "GetPassthroughPort"} =>
        LET h == StripPort(call.host)
            route == IF call.op = "GetPassthrough" THEN call.res
                     ELSE call.res.route
        IN  (/\ \E i \in DOMAIN rt.routes :
                    rt.routes[i].Host = h /\ ~rt.routes[i].Passthrough
             /\ \A i \in DOMAIN rt.routes :
                    rt.routes[i].Host = h => ~rt.routes[i].Passthrough)
                => route = Nil

-----------------------------------------------------------------------------
(* Claims about the bytes extractSNI returns.                              *)

\* the extensions block as extractSNI finds it: the position after the
\* block's length and the end the loop uses
SNIBlock(data) ==
    LET pos1 == 43 + 1 + data[44]
        pos2 == pos1 + 2 + U16(data, pos1)
        pos3 == pos2 + 1 + data[pos2 + 1]
        pos4 == pos3 + 2
        e    == pos4 + U16(data, pos3)
    IN  [start |-> pos4, declared |-> e,
         end |-> IF e > Len(data) THEN Len(data) ELSE e]

\* the position of the header of the extension the loop takes as
\* server_name, for data a name was returned from
RECURSIVE ServerNameAt(_, _, _)
ServerNameAt(data, pos, end) ==
    IF U16(data, pos) = 0 /\ pos + 4 + U16(data, pos + 2) <= end
      THEN pos
      ELSE ServerNameAt(data, pos + 4 + U16(data, pos + 2), end)

\* C37: a name extractSNI returns lies inside the declared body of the
\* server_name extension it was read from (from the end of the 4-byte
\* header to that end plus the extension's length) and inside the declared
\* server_name_list, and never beyond the declared extensions block.
C37_NameInsideExtension ==
    (IsSNICall /\ sni.res.err = "" /\ ~sni.res.panic) =>
        LET b       == SNIBlock(sni.data)
            x       == ServerNameAt(sni.data, b.start, b.end)
            extLen  == U16(sni.data, x + 2)
            listLen == U16(sni.data, x + 4)
            nameEnd == x + 9 + Len(sni.res.name)
        IN  /\ nameEnd <= x + 4 + extLen
            /\ nameEnd <= x + 6 + listLen
            /\ nameEnd <= b.declared

\* the part of C37 about the extensions block alone
NameInsideBlock ==
    (IsSNICall /\ sni.res.err = "" /\ ~sni.res.panic) =>
        LET b == SNIBlock(sni.data)
            x == ServerNameAt(sni.data, b.start, b.end)
        IN  x + 9 + Len(sni.res.name) <= b.declared

-----------------------------------------------------------------------------
(* Claims about the use of the peek buffer.                                *)

\* the step reads the peek buffer: the extraction and the lookup after
\* the first Read, proxyTCP's write of the peeked bytes, or a Read of the
\* replayConn that copies from c.buf
UsesPeekBuffer ==
    \/ cn.pc = "peeked" /\ cn'.pc # "peeked"
    \/ cn.pc = "write" /\ cn'.pc # "write"
    \/ cn.pc = "serve" /\ Len(rc'.buf) < Len(rc.buf)

\* the step of replayConn.Read or Close that gives the buffer back
ReplayReleases ==
    cn.pc = "serve" /\ pool'.peekPuts > pool.peekPuts

C38_Step ==
    /\ UsesPeekBuffer => pool.peekPuts = 0
    /\ pool.peekPuts > 0 =>
          /\ rc'.buf = rc.buf
          /\ rd'.got # rd.got => rc'.pos > rc.pos
    /\ (ReplayReleases /\ rd.pc = "put") => rc.buf = <<>>
    /\ (pool'.peekPuts > pool.peekPuts /\ cn.path = "splice") =>
          /\ Len(sp.peer.backend.recv) >= cn.n
          /\ SubSeq(sp.peer.backend.recv, 1, cn.n) = Stream(1, cn.n)
    /\ cn'.n # cn.n => cn.pc = "read"

\* C38: after the peek buffer of a connection has been returned to the
\* pool, no step of the connection reads it: on the passthrough path the
\* peeked bytes have reached the backend before the Put, on the terminated
\* path Read gives the buffer back only after copying the last peeked byte
\* out and reads the socket from then on, and the peeked bytes stay what
\* the first Read returned.
C38_NoUseAfterRelease == [][C38_Step]_vars

\* the replayConn has given the buffer back from Read and a later Read has
\* returned bytes of the socket
C38_Witness ==
    /\ cn.path = "terminate"
    /\ pool.peekPuts = 1
    /\ rc.buf = <<>> /\ rc.pos > 0
    /\ cl.calls = 0 /\ cl.pc = "idle"
    /\ Len(rd.got) > cn.n

\* the buffer has been given back after a splice that carried the peeked
\* bytes to the backend
C38_WitnessSplice ==
    /\ cn.path = "splice"
    /\ cn.pc = "returned"
    /\ pool.peekPuts = 1

-----------------------------------------------------------------------------
(* Claims about the target of a redirect.                                  *)

\* C39: the route Redirect returns, whose Host the handler puts in the
\* Location of the 301, has a literal host that Redirect itself does not
\* redirect: never a pattern "*.suffix", never a redirect source of the
\* table.
C39_RedirectTargetLiteral ==
    (call.op = "Redirect" /\ call.res # Nil) =>
        /\ ~IsWildcardHost(call.res.Host)
        /\ Redirect(rt, call.res.Host) = Nil

-----------------------------------------------------------------------------
(* Claims about the path sent upstream.                                    *)

\* the request has been forwarded and its inbound path began with "/"
ForwardedSlash(i) ==
    /\ reqs[i].pc = "done"
    /\ reqs[i].resp.code = 200
    /\ HasPrefix(reqs[i].in.Path, <<"/">>)

\* C40: the path of the request sent upstream begins with "/", whatever
\* the route matched and whether or not its prefix was stripped, a prefix
\* ending with "/" included.
C40_OutboundPathSlash ==
    \A i \in ReqIds :
        ForwardedSlash(i) =>
            /\ HasPrefix(reqs[i].out.Path, <<"/">>)
            /\ HasPrefix(reqs[i].out.RequestURI, <<"/">>)

\* a request was forwarded on a route whose prefix ends with "/": the
\* stripping left r.URL.Path without a leading "/"
C40_Witness ==
    \E i \in ReqIds :
        /\ ForwardedSlash(i)
        /\ reqs[i].route.StripPrefix
        /\ HasSuffix(reqs[i].route.PathPrefix, <<"/">>)
        /\ reqs[i].route.PathPrefix # <<"/">>
        /\ reqs[i].url.Path # <<>>
        /\ ~HasPrefix(reqs[i].url.Path, <<"/">>)

====
